---- MODULE Spec2Model ----
(***************************************************************************)
(* The add-friend round engine of the Alpenhorn client (src/addfriend.go), *)
(* together with the client state it works on (src/internal/mock/mix.go,   *)
(* type Client) and the typed websocket connection that dispatches the     *)
(* coordinator's envelopes (src/unnamed/part_000, package typesocket).     *)
(*                                                                         *)
(* Every envelope is handled in a goroutine of its own (readLoop:          *)
(* "go c.mux.openEnvelope").  A goroutine is a task slot with a program    *)
(* counter; one action is one stretch of a handler between two points at   *)
(* which another goroutine can observe or change the shared state.  The    *)
(* critical sections of the client lock c.mu hold no blocking call that    *)
(* another handler step waits for, so each is one action; the round lock   *)
(* st.mu is held across several actions and is a variable.                 *)
(***************************************************************************)
EXTENDS Naturals, Sequences, FiniteSets

\* ------------------------------------------------------------------ bounds
MaxRound == 1
MaxTasks == 2
MaxEnvelopes == 5
MaxMailbox == 1
MaxOutgoing == 1
MaxDialRound == 1
MaxCalls == 2

Rounds == 1..MaxRound
Tasks == 1..MaxTasks
\* Every envelope creates at most MaxMailbox request objects.
Ids == 1..(MaxEnvelopes * MaxMailbox)
DialRounds == 0..MaxDialRound

\* ------------------------------------------------------- the outside world
Users == {"bob", "eve"}
Keys == {"kBob", "kEve"}
NoKey == "nil"

\* The long-term key the PKGs attest for a user: an introduction only
\* verifies (intro.Verify) when it carries this key.
KeyOf(u) == IF u = "bob" THEN "kBob" ELSE "kEve"

Configs == {"cA", "cB", "cBad"}
Hashes == {"hA", "hB", "hBad"}

\* config.Hash(): the hash of a signed config.
Hash(c) == CASE c = "cA" -> "hA" [] c = "cB" -> "hB" [] OTHER -> "hBad"

\* st.Config.PKGServers, by position.
PKGServers(c) == IF c = "cA" THEN <<"p1">> ELSE <<"p1", "p2">>
PKGs == {"p1", "p2"}

VARIABLES
    addFriendRounds,        \* c.addFriendRounds: round -> *addFriendRoundState
    stMu,                   \* st.mu of each round: 0 free, else the task holding it
    mu,                     \* c.mu: 0 free, else the goroutine holding it
    addFriendConfig,        \* c.addFriendConfig
    addFriendConfigHash,    \* c.addFriendConfigHash
    registrations,          \* c.registrations: the PKGs with a pkg.Client
    friends,                \* c.friends: username -> *Friend
    incomingFriendRequests, \* c.incomingFriendRequests
    outgoingFriendRequests, \* c.outgoingFriendRequests
    sentFriendRequests,     \* c.sentFriendRequests
    lastDialingRound,       \* c.lastDialingRound (atomic)
    task,                   \* the goroutines spawned by readLoop
    onions,                 \* per round, the onions written to the websocket
    connMu,                 \* clientConn.mu: "free" or "held" (never released)
    wsOpen,                 \* the websocket is open
    crashed,                \* an unrecovered panic ended the process
    envelopes,              \* the envelopes readLoop has read
    last,                   \* the handler step just taken: its name, round and config hash
    emitted,                \* the EventHandler calls of the step just taken
    locked,                 \* for each of them, whether the caller holds c.mu
    calling,                \* the handler calls that have not returned, made by
                            \* goroutines that hold no lock and then end
    data,                   \* bloom.Filter.data: the bits that are set
    hashOf,                 \* the bit positions the filter's hash functions give each element
    wasSet,                 \* the elements Set since the filter was created
    connected,              \* c.connected
    dialingOpen,            \* c.dialingConn is open (wsOpen: the add-friend connection is)
    ret,                    \* what the last call of Connect, Close or checkStatus returned
    users,                  \* the PKG server's user database
    statusArgs,             \* the arguments of the last checkStatus, and what getUser did
    lockOps                 \* per goroutine, the lock operations its handler has still to do

\* The state of the packages beside the add-friend engine.
otherVars == <<data, hashOf, wasSet, connected, dialingOpen, ret, users, statusArgs, lockOps>>

sessionVars == <<connected, dialingOpen, ret>>

serverVars == <<users, statusArgs>>

filterVars == <<data, hashOf, wasSet>>

engineVars == <<addFriendRounds, stMu, mu, addFriendConfig, addFriendConfigHash,
                registrations, friends, incomingFriendRequests,
                outgoingFriendRequests, sentFriendRequests, lastDialingRound,
                task, onions, connMu, wsOpen, crashed, envelopes, last, emitted, locked, calling>>

vars == <<engineVars, otherVars>>

clientVars == <<addFriendRounds, addFriendConfig, addFriendConfigHash,
                registrations, friends, incomingFriendRequests,
                outgoingFriendRequests, sentFriendRequests>>

\* ------------------------------------------------------------------ values
Event(kind, user) == [kind |-> kind, user |-> user]
ErrorEvent == Event("Error", "")

NoOut == [Username |-> "", ExpectedKey |-> NoKey, Confirmation |-> FALSE, DialRound |-> 0]
NoSent == [id |-> 0, Username |-> "", ExpectedKey |-> NoKey, DialRound |-> 0, SentRound |-> 0]
NoIn == [id |-> 0, Username |-> "", LongTermKey |-> NoKey, DialRound |-> 0]

IdleTask == [pc |-> "idle", round |-> 0, idx |-> 0,
             out |-> NoOut, sent |-> NoSent, inReq |-> NoIn, spans |-> <<>>]

\* addFriendRoundState as newAddFriendRound creates it: the four key slices nil.
NewRoundState(r, c) == [Round |-> r, Config |-> c, ServerMasterKeys |-> <<>>,
                        PrivateKeys |-> <<>>, ServerBLSKeys |-> <<>>, IdentitySigs |-> <<>>]

MapPut(f, k, v) == [x \in (DOMAIN f) \cup {k} |-> IF x = k THEN v ELSE f[x]]

AllSet(s) == Len(s) > 0 /\ \A i \in 1..Len(s) : s[i]

\* The calls c.Handler.X(...) of a step, made with c.mu held or not.
Calls(events, held) ==
    /\ emitted' = events
    /\ locked' = [i \in DOMAIN events |-> held]

\* A goroutine calls a handler while it holds no lock, and ends when the
\* handler returns: until then the call is in progress.
BeginCall == calling' = IF calling < MaxCalls THEN calling + 1 ELSE calling

WithMu_unlocked == UNCHANGED mu

\* c.mu.Lock() ... c.mu.Unlock() within a step: the step waits until c.mu
\* is free and leaves it free.
WithMu == mu = 0 /\ mu' = 0

\* A handler step: its name, the round of its envelope and, for newround,
\* the announced config hash.
Did(op, r, h) == [op |-> op, round |-> r, hash |-> h]

\* A goroutine that is not in a handler.
NoOps == [round |-> 0, ops |-> <<>>]

\* The rest at the time the engine starts: a filter New has just made, the
\* session as Connect leaves it when it returns nil, and a PKG server
\* without users.
OtherInit ==
    /\ data = {}
    /\ hashOf = [x \in {} |-> <<>>]
    /\ wasSet = {}
    /\ connected = TRUE
    /\ dialingOpen = TRUE
    /\ ret = "nil"
    /\ users = <<>>
    /\ statusArgs = <<>>
    /\ lockOps = [t \in Tasks |-> NoOps]

\* The engine after construction and Connect: no round, the configuration
\* the client was created with, empty queues, no goroutine.
EngineInit ==
    /\ addFriendRounds = [r \in {} |-> NewRoundState(0, "cA")]
    /\ stMu = [r \in Rounds |-> 0]
    /\ mu = 0
    /\ addFriendConfig = "cA"
    /\ addFriendConfigHash = Hash("cA")
    /\ registrations = {"p1"}
    /\ friends = [u \in {} |-> [Username |-> "", LongTermKey |-> NoKey]]
    /\ incomingFriendRequests = <<>>
    /\ outgoingFriendRequests = <<>>
    /\ sentFriendRequests = <<>>
    /\ lastDialingRound = 0
    /\ task = [t \in Tasks |-> IdleTask]
    /\ onions = [r \in Rounds |-> 0]
    /\ connMu = "free"
    /\ wsOpen = TRUE
    /\ crashed = FALSE
    /\ envelopes = 0
    /\ last = Did("init", 0, "")
    /\ emitted = <<>>
    /\ locked = <<>>
    /\ calling = 0

Init == EngineInit /\ OtherInit

\* ------------------------------------------------------- config chain
\* The config with a given hash, as the config service serves it.
ConfigOf(h) == CASE h = "hA" -> "cA" [] h = "hB" -> "cB" [] OTHER -> "cBad"

\* There is a chain from the trusted config `have` to the config with hash
\* `want` in which every link is signed according to its predecessor's
\* policy: cB follows cA; cBad names cA as its predecessor but its
\* signatures do not satisfy cA's policy.
ChainVerifies(have, want) == have = "cA" /\ want = "hB"

\* c.fetchAndVerifyConfig(have, want): the outcomes it can have.  A chain
\* that verifies can still fail to be fetched (transport error).
FetchOutcomes(have, want) == IF ChainVerifies(have, want) THEN {"ok", "fail"} ELSE {"fail"}

FetchEvents_silent(want) == <<>>

\* The handler calls of a successful fetch: NewConfig(chain), the only place
\* where the chain is at hand.
FetchEvents(want) == <<Event("NewConfig", want)>>

\* ------------------------------------------------------- newAddFriendRound
KnownRound_never(r) == FALSE

\* st, ok := c.addFriendRounds[v.Round]
KnownRound(r) == r \in DOMAIN addFriendRounds

DifferentConfig_never(st, h) == FALSE

\* st.Config.Hash() != v.ConfigHash
DifferentConfig(st, h) == Hash(st.Config) # h

RoundsAfterFetchError_created(r) == MapPut(addFriendRounds, r, NewRoundState(r, addFriendConfig))

\* The round map after fetchAndVerifyConfig returned an error: the handler
\* returns before it creates a state entry.
RoundsAfterFetchError(r) == addFriendRounds

\* What the registration loop of loadAddFriendConfig does for one PKG that
\* has no registration yet: CheckStatus succeeds ("copied"), CheckStatus says
\* ErrNotRegistered and Register succeeds ("registered") or fails
\* ("registerFailed"), or CheckStatus fails otherwise ("statusFailed").
RegOutcomes == {"copied", "registered", "registerFailed", "statusFailed"}

Range(s) == {s[i] : i \in DOMAIN s}

NewPKGs(config) == Range(PKGServers(config)) \ registrations

Registered(config, outcome) ==
    registrations \cup {p \in NewPKGs(config) : outcome[p] \in {"copied", "registered"}}

RegErrors(config, outcome) ==
    [i \in 1..Cardinality({p \in NewPKGs(config) : outcome[p] \in {"registerFailed", "statusFailed"}})
        |-> ErrorEvent]

\* loadAddFriendConfig(config), c.mu held: install the config, register with
\* the PKGs that are new, persist; a persist error panics.
loadAddFriendConfig(config, outcome, persistOK, events) ==
    /\ addFriendConfig' = config
    /\ addFriendConfigHash' = Hash(config)
    /\ registrations' = Registered(config, outcome)
    /\ Calls(events \o RegErrors(config, outcome), TRUE)
    /\ crashed' = ~persistOK

\* readLoop reads one more envelope and starts its handler.
ReadEnvelope ==
    /\ ~crashed /\ wsOpen
    /\ envelopes < MaxEnvelopes
    /\ envelopes' = envelopes + 1

\* The "newround" handler; it holds c.mu from entry to return.
newAddFriendRound(r, h) ==
    /\ ReadEnvelope
    /\ last' = Did("newround", r, h)
    /\ UNCHANGED otherVars
    /\ WithMu
    /\ UNCHANGED <<stMu, friends, incomingFriendRequests, outgoingFriendRequests,
                   sentFriendRequests, lastDialingRound, task, onions, connMu, wsOpen, calling>>
    /\ IF KnownRound(r)
       THEN /\ Calls(IF DifferentConfig(addFriendRounds[r], h) THEN <<ErrorEvent>> ELSE <<>>, TRUE)
            /\ UNCHANGED <<addFriendRounds, addFriendConfig, addFriendConfigHash,
                           registrations, crashed>>
       ELSE IF h = addFriendConfigHash
       THEN /\ addFriendRounds' = MapPut(addFriendRounds, r, NewRoundState(r, addFriendConfig))
            /\ Calls(<<>>, FALSE)
            /\ UNCHANGED <<addFriendConfig, addFriendConfigHash, registrations, crashed>>
       ELSE \E res \in FetchOutcomes(addFriendConfig, h) :
            IF res = "fail"
            THEN /\ Calls(<<ErrorEvent>>, TRUE)
                 /\ addFriendRounds' = RoundsAfterFetchError(r)
                 /\ UNCHANGED <<addFriendConfig, addFriendConfigHash, registrations, crashed>>
            ELSE /\ addFriendRounds' = MapPut(addFriendRounds, r, NewRoundState(r, ConfigOf(h)))
                 /\ \E outcome \in [NewPKGs(ConfigOf(h)) -> RegOutcomes], persistOK \in BOOLEAN :
                        loadAddFriendConfig(ConfigOf(h), outcome, persistOK, FetchEvents(h))

\* ------------------------------------------------------------- goroutines
HasRound(r) == r \in DOMAIN addFriendRounds

IdleTasks == {t \in Tasks : task[t].pc = "idle"}

MinOf(S) == CHOOSE x \in S : \A y \in S : x <= y

\* readLoop starts a goroutine for the envelope it has read ("go
\* c.mux.openEnvelope"): the lowest free slot.
Spawned(t) == ReadEnvelope /\ IdleTasks # {} /\ t = MinOf(IdleTasks)

SeqIds(q) == {q[i].id : i \in DOMAIN q}

SpanIds(t) == UNION {{task[t].spans[i].intro.id, task[t].spans[i].sent.id} : i \in DOMAIN task[t].spans}

\* The request objects that are reachable: queued, or held by a goroutine.
UsedIds ==
    SeqIds(incomingFriendRequests) \cup SeqIds(sentFriendRequests)
      \cup UNION {{task[t].sent.id, task[t].inReq.id} \cup SpanIds(t) : t \in Tasks}

FreeIds == Ids \ UsedIds

Unlock(r) == stMu' = [stMu EXCEPT ![r] = 0]

Finish(t) == task' = [task EXCEPT ![t] = IdleTask]

connVars == <<onions, connMu, wsOpen>>

\* --------------------------------------------------------- extractPKGKeys
AlreadyExtracted_never(st) == FALSE

\* st.PrivateKeys != nil
AlreadyExtracted(st) == st.PrivateKeys # <<>>

\* The "pkg" handler up to the extraction loop: the round lookup,
\* st.mu.Lock(), the return when the keys are there, the check of the PKG
\* settings (settingsOK: v.PKGSettings.Verify accepts them) and the making
\* of the four slices.
extractPKGKeys(t, r, settingsOK) ==
    /\ Spawned(t)
    /\ last' = Did("pkg", r, "")
    /\ UNCHANGED otherVars
    /\ WithMu
    /\ UNCHANGED <<addFriendConfig, addFriendConfigHash, registrations, friends,
                   incomingFriendRequests, outgoingFriendRequests, sentFriendRequests,
                   lastDialingRound, connVars, crashed>>
    /\ IF ~HasRound(r)
       THEN /\ Calls(<<ErrorEvent>>, FALSE) /\ BeginCall
            /\ UNCHANGED <<addFriendRounds, stMu, task>>
       ELSE LET st == addFriendRounds[r]
                empty == [i \in 1..Len(PKGServers(st.Config)) |-> FALSE]
            IN  /\ stMu[r] = 0
                /\ UNCHANGED calling
                /\ IF AlreadyExtracted(st)
                   THEN /\ Calls(<<>>, FALSE)
                        /\ UNCHANGED <<addFriendRounds, stMu, task>>
                   ELSE IF ~settingsOK
                   THEN /\ Calls(<<ErrorEvent>>, FALSE)
                        /\ UNCHANGED <<addFriendRounds, stMu, task>>
                   ELSE /\ Calls(<<>>, FALSE)
                        /\ addFriendRounds' = [addFriendRounds EXCEPT ![r] =
                              [st EXCEPT !.ServerMasterKeys = empty, !.PrivateKeys = empty,
                                         !.ServerBLSKeys = empty, !.IdentitySigs = empty]]
                        /\ stMu' = [stMu EXCEPT ![r] = t]
                        /\ task' = [task EXCEPT ![t] =
                              [IdleTask EXCEPT !.pc = "pkgExtract", !.round = r, !.idx = 1]]

\* One iteration of the extraction loop, st.mu held: look the registration
\* up, Extract, store the keys, verify the identity signature and store it.
\* res is what the PKG answers: an Extract error ("err"), keys with an
\* invalid identity signature ("badsig"), or keys with a valid one ("ok").
extractPKGKeys_extract(t, res) ==
    LET r == task[t].round
        st == addFriendRounds[r]
        i == task[t].idx
        n == Len(PKGServers(st.Config))
        withKeys == [st EXCEPT !.ServerMasterKeys[i] = TRUE, !.ServerBLSKeys[i] = TRUE,
                               !.PrivateKeys[i] = TRUE]
    IN  /\ ~crashed /\ task[t].pc = "pkgExtract"
        /\ last' = Did("pkg.extract", task[t].round, "")
        /\ UNCHANGED otherVars
        /\ WithMu
        /\ UNCHANGED calling
        /\ IF PKGServers(st.Config)[i] \notin registrations \/ res = "err"
           THEN /\ Calls(<<ErrorEvent>>, FALSE) /\ Finish(t) /\ Unlock(r)
                /\ UNCHANGED addFriendRounds
           ELSE IF res = "badsig"
           THEN /\ Calls(<<>>, FALSE) /\ Finish(t) /\ Unlock(r)
                /\ addFriendRounds' = [addFriendRounds EXCEPT ![r] = withKeys]
           ELSE /\ Calls(<<>>, FALSE)
                /\ addFriendRounds' = [addFriendRounds EXCEPT ![r] =
                                          [withKeys EXCEPT !.IdentitySigs[i] = TRUE]]
                /\ IF i = n
                   THEN Finish(t) /\ Unlock(r)
                   ELSE task' = [task EXCEPT ![t].idx = i + 1] /\ UNCHANGED stMu
        /\ UNCHANGED <<addFriendConfig, addFriendConfigHash, registrations, friends,
                       incomingFriendRequests, outgoingFriendRequests, sentFriendRequests,
                       lastDialingRound, connVars, crashed, envelopes>>

\* ---------------------------------------------------- matching, newFriend
Match_usernameOnly(inReq, sentReq) == inReq.Username = sentReq.Username

\* inReq.Username == sentReq.Username && inReq.DialRound == sentReq.DialRound
Match(inReq, sentReq) ==
    inReq.Username = sentReq.Username /\ inReq.DialRound = sentReq.DialRound

\* The first queued incoming request that matches, as the range loop
\* returns it; NoIn stands for the nil result.
matchToIncoming(sentReq) ==
    LET hits == {i \in DOMAIN incomingFriendRequests : Match(incomingFriendRequests[i], sentReq)}
    IN  IF hits # {} THEN incomingFriendRequests[MinOf(hits)] ELSE NoIn

matchToSent_never(inReq) == NoSent

matchToSent_any(inReq) ==
    IF sentFriendRequests # <<>> THEN sentFriendRequests[1] ELSE NoSent

matchToSent_last(inReq) ==
    LET hits == {i \in DOMAIN sentFriendRequests : Match(inReq, sentFriendRequests[i])}
    IN  IF hits # {}
        THEN sentFriendRequests[CHOOSE i \in hits : \A j \in hits : j <= i]
        ELSE NoSent

\* The first queued sent request that matches; NoSent stands for nil.
matchToSent(inReq) ==
    LET hits == {i \in DOMAIN sentFriendRequests : Match(inReq, sentFriendRequests[i])}
    IN  IF hits # {} THEN sentFriendRequests[MinOf(hits)] ELSE NoSent

\* for _, x := range q { if x != req { new = append(new, x) } }: requests
\* are compared as pointers, the model's ids.
Remove(q, req) == SelectSeq(q, LAMBDA x : x.id # req.id)

FriendOf(inReq) == [Username |-> inReq.Username, LongTermKey |-> inReq.LongTermKey]

\* newFriend(in, sent): the friend is stored and the two requests leave
\* their queues under c.mu; a persist error is reported, and ConfirmedFriend
\* is called after the unlock.
newFriend(inReq, sentReq, persistOK) ==
    /\ friends' = MapPut(friends, inReq.Username, FriendOf(inReq))
    /\ incomingFriendRequests' = Remove(incomingFriendRequests, inReq)
    /\ sentFriendRequests' = Remove(sentFriendRequests, sentReq)
    /\ emitted' = (IF persistOK THEN <<>> ELSE <<ErrorEvent>>)
                     \o <<Event("ConfirmedFriend", inReq.Username)>>
    /\ locked' = (IF persistOK THEN <<>> ELSE <<TRUE>>) \o <<FALSE>>

\* ------------------------------------------------------ sendAddFriendOnion
nextOutgoingFriendRequest_last ==
    IF Len(outgoingFriendRequests) > 0
    THEN outgoingFriendRequests[Len(outgoingFriendRequests)]
    ELSE NoOut

\* nextOutgoingFriendRequest: the head of the queue, or a cover request.
nextOutgoingFriendRequest ==
    IF Len(outgoingFriendRequests) > 0 THEN Head(outgoingFriendRequests) ELSE NoOut

genIntro_own(r, out, id) ==
    [id |-> id, Username |-> out.Username, ExpectedKey |-> out.ExpectedKey,
     DialRound |-> out.DialRound, SentRound |-> r]

\* genIntro's sentFriendRequest for an outgoing request, sent in round r; id
\* is the identity of the new object.
genIntro(r, out, id) ==
    [id |-> id, Username |-> out.Username, ExpectedKey |-> out.ExpectedKey,
     DialRound |-> IF out.Confirmation THEN out.DialRound ELSE lastDialingRound,
     SentRound |-> r]

\* genIntro's introduction, as far as it depends on the request:
\* intro.DialingRound = sent.DialRound.
IntroOf(sentReq) == [DialingRound |-> sentReq.DialRound]

\* The "mix" handler up to conn.Send: the round lookup, the mixers'
\* signatures over the settings (sigsOK: all of them verify), st.mu.Lock(),
\* nextOutgoingFriendRequest, genIntro and the building of the onion.  The
\* handler does not look at the round's keys before it aggregates them: with
\* master keys missing, Aggregate either panics (keysPanic) or yields a key,
\* as the IBE library decides.
sendAddFriendOnion(t, r, sigsOK, keysPanic) ==
    /\ Spawned(t)
    /\ last' = Did("mix", r, "")
    /\ UNCHANGED otherVars
    /\ WithMu
    /\ UNCHANGED <<addFriendRounds, addFriendConfig, addFriendConfigHash, registrations,
                   friends, incomingFriendRequests, sentFriendRequests,
                   lastDialingRound, connVars>>
    /\ IF ~HasRound(r) \/ ~sigsOK
       THEN /\ Calls(<<ErrorEvent>>, FALSE) /\ BeginCall
            /\ UNCHANGED <<outgoingFriendRequests, stMu, task, crashed>>
       ELSE LET st == addFriendRounds[r]
                out == nextOutgoingFriendRequest
                id == IF out.Username = "" THEN 0 ELSE MinOf(FreeIds)
            IN  /\ stMu[r] = 0
                /\ keysPanic => ~AllSet(st.ServerMasterKeys)
                /\ Calls(<<>>, FALSE) /\ UNCHANGED calling
                /\ stMu' = [stMu EXCEPT ![r] = t]
                /\ outgoingFriendRequests' =
                      IF Len(outgoingFriendRequests) > 0 THEN Tail(outgoingFriendRequests)
                      ELSE <<>>
                /\ task' = [task EXCEPT ![t] =
                      [IdleTask EXCEPT !.pc = "mixSend", !.round = r, !.out = out,
                                       !.sent = genIntro(r, out, id)]]
                /\ crashed' = keysPanic

IsReal_always(sentReq) == TRUE

\* sentReq.Username != ""
IsReal(sentReq) == sentReq.Username # ""

\* ------------------------------------------------- the onion of a mix step
\* Byte strings are sequences of small numbers.  The sizes are those of the
\* fixed-size wire structs, scaled down: the marshalled introduction, what
\* IBE encryption adds to a plaintext, and what each onion layer adds.
SizeIntro == 3
SizeIBEOverhead == 1
SizeEncryptedIntro == SizeIntro + SizeIBEOverhead
SizeOnionLayer == 1
NumMailboxes == 2

Zeros(n) == [i \in 1..n |-> 0]

\* pkg.ValidUsernameToIdentity(username)
ValidUsernameToIdentity(u) == CASE u = "" -> 0 [] u = "bob" -> 1 [] OTHER -> 2

\* usernameToMailbox(username, numMailboxes): the empty username has the
\* mailbox past the last one, any other a mailbox below it.
usernameToMailbox(u, n) == IF u = "" THEN n ELSE ValidUsernameToIdentity(u) % n

\* The calls of genIntro, in order; none of them depends on the request.
genIntro_calls(out) == <<"box.GenerateKey", "bls.Aggregate", "intro.Sign">>

\* mustMarshal(intro): the introduction is a fixed-size struct; of its
\* fields only the dialing round depends on the request.
MarshalIntro(sentReq) == <<7, sentReq.DialRound, 7>>

\* ibe.Encrypt(rand.Reader, masterKey, id[:], msg)
ibeEncrypt(id, msg) == <<id + 10>> \o msg

\* subtle.ConstantTimeCopy(v, x, y): x with the bytes of y if v = 1, x as it
\* is if v = 0.
ConstantTimeCopy(v, x, y) == IF v = 1 THEN y ELSE x

MixMessageOf_coverEmpty(sentReq) ==
    [Mailbox |-> usernameToMailbox(sentReq.Username, NumMailboxes),
     EncryptedIntro |->
        IF IsReal(sentReq)
        THEN ibeEncrypt(ValidUsernameToIdentity(sentReq.Username), MarshalIntro(sentReq))
        ELSE <<>>]

\* The MixMessage of sendAddFriendOnion: the mailbox of the addressee and
\* the encrypted introduction, copied in for a real request and left zero
\* for a cover request.
MixMessageOf(sentReq) ==
    [Mailbox |-> usernameToMailbox(sentReq.Username, NumMailboxes),
     EncryptedIntro |->
        ConstantTimeCopy(IF IsReal(sentReq) THEN 1 ELSE 0,
                         Zeros(SizeEncryptedIntro),
                         ibeEncrypt(ValidUsernameToIdentity(sentReq.Username),
                                    MarshalIntro(sentReq)))]

\* mustMarshal(mixMessage)
MarshalMixMessage(m) == <<m.Mailbox>> \o m.EncryptedIntro

\* onionbox.Seal(msg, zeroNonce, v.MixSettings.OnionKeys), one mixer
OnionOf(sentReq) == Zeros(SizeOnionLayer) \o MarshalMixMessage(MixMessageOf(sentReq))

\* The calls of sendAddFriendOnion from genIntro to conn.Send, in order:
\* the code has no branch around any of them.
sendAddFriendOnion_calls(out) ==
    genIntro_calls(out) \o <<"ibe.Aggregate", "ibe.Encrypt", "subtle.ConstantTimeCopy",
                             "onionbox.Seal", "conn.Send">>

\* conn.Send("onion", omsg): the write succeeds (wrote), or it fails, and
\* then Send closes the connection and returns with the connection's mutex
\* still locked; the handler ignores the result.  For a real request the
\* handler goes on with c.Handler.SentFriendRequest(outgoingReq) and
\* matchToIncoming(sentReq); for a cover request it returns.
sendAddFriendOnion_send(t, wrote) ==
    LET r == task[t].round
        inReq == matchToIncoming(task[t].sent)
    IN  /\ ~crashed /\ task[t].pc = "mixSend" /\ connMu = "free"
        /\ last' = Did("mix.send", task[t].round, "")
        /\ UNCHANGED otherVars
        /\ IF IsReal(task[t].sent) THEN WithMu ELSE UNCHANGED mu
        /\ UNCHANGED calling
        /\ onions' = IF wrote THEN [onions EXCEPT ![r] = @ + 1] ELSE onions
        /\ connMu' = IF wrote THEN "free" ELSE "held"
        /\ wsOpen' = (wsOpen /\ wrote)
        /\ IF IsReal(task[t].sent)
           THEN /\ Calls(<<Event("SentFriendRequest", task[t].out.Username)>>, FALSE)
                /\ task' = [task EXCEPT ![t].pc = IF inReq = NoIn THEN "mixAppend" ELSE "mixFriend",
                                        ![t].inReq = inReq]
                /\ UNCHANGED stMu
           ELSE /\ Calls(<<>>, FALSE)
                /\ Finish(t) /\ Unlock(r)
        /\ UNCHANGED <<clientVars, lastDialingRound, crashed, envelopes>>

AppendSent_front(q, sentReq) == <<sentReq>> \o q

\* append(c.sentFriendRequests, sentReq)
AppendSent(q, sentReq) == Append(q, sentReq)

\* c.sentFriendRequests = append(c.sentFriendRequests, sentReq), then the
\* deferred st.mu.Unlock().
sendAddFriendOnion_append(t) ==
    LET r == task[t].round
    IN  /\ ~crashed /\ task[t].pc = "mixAppend"
        /\ last' = Did("mix.append", task[t].round, "")
        /\ UNCHANGED otherVars
        /\ WithMu
        /\ UNCHANGED calling
        /\ Calls(<<>>, FALSE)
        /\ sentFriendRequests' = AppendSent(sentFriendRequests, task[t].sent)
        /\ Finish(t) /\ Unlock(r)
        /\ UNCHANGED <<addFriendRounds, addFriendConfig, addFriendConfigHash, registrations,
                       friends, incomingFriendRequests, outgoingFriendRequests,
                       lastDialingRound, connVars, crashed, envelopes>>

\* c.newFriend(inReq, sentReq), then the deferred st.mu.Unlock().
sendAddFriendOnion_newFriend(t, persistOK) ==
    LET r == task[t].round
    IN  /\ ~crashed /\ task[t].pc = "mixFriend"
        /\ last' = Did("mix.newFriend", task[t].round, "")
        /\ UNCHANGED otherVars
        /\ WithMu
        /\ newFriend(task[t].inReq, task[t].sent, persistOK) /\ UNCHANGED calling
        /\ Finish(t) /\ Unlock(r)
        /\ UNCHANGED <<addFriendRounds, addFriendConfig, addFriendConfigHash, registrations,
                       outgoingFriendRequests, lastDialingRound, connVars, crashed, envelopes>>

\* ------------------------------------------------------------- scanMailbox
\* The verified introductions a mailbox can hold.
OkIntros == {[kind |-> "ok", Username |-> "bob", DialRound |-> 0],
             [kind |-> "ok", Username |-> "bob", DialRound |-> MaxDialRound],
             [kind |-> "ok", Username |-> "eve", DialRound |-> MaxDialRound]}

\* What a mailbox can hold in one span: a verified introduction, a
\* ciphertext that does not decrypt or unmarshal ("garbage"), or an
\* introduction that fails intro.Verify ("badsig").
Intros == OkIntros \cup {[kind |-> k, Username |-> "", DialRound |-> 0] : k \in {"garbage", "badsig"}}

Mailboxes == UNION {[1..n -> Intros] : n \in 0..MaxMailbox}

\* The IncomingFriendRequest that decodeAddFriendMessage builds from a
\* verified introduction; id is the identity of the new object.
IncomingOf(x, id) ==
    [id |-> id, Username |-> x.Username, LongTermKey |-> KeyOf(x.Username),
     DialRound |-> x.DialRound]

RECURSIVE SpansOf(_, _)
\* The spans of a fetched mailbox, each decoded on its own
\* (concurrency.ParallelFor).  ibe.Decrypt, UnmarshalBinary and intro.Verify
\* drop what is not a verified introduction; free are the identities left
\* for the requests built from the verified ones.
SpansOf(mb, free) ==
    IF mb = <<>> THEN <<>>
    ELSE LET x == Head(mb)
             isOk == x.kind = "ok"
             id == IF isOk THEN MinOf(free) ELSE 0
         IN  <<[intro |-> IF isOk THEN IncomingOf(x, id) ELSE NoIn,
                pc |-> IF isOk THEN "pending" ELSE "done",
                sent |-> NoSent]>>
                \o SpansOf(Tail(mb), IF isOk THEN free \ {id} ELSE free)

scanMailbox_notFound_reported == <<ErrorEvent>>

\* The handler calls made for a round that is not in c.addFriendRounds:
\* none, the c.Handler.Error(err) there is commented out.
scanMailbox_notFound == <<>>

\* The "mailbox" handler up to ParallelFor: an unknown round returns without
\* a word, a failed fetch reports an error; then st.mu.Lock(), privKey :=
\* Aggregate(st.PrivateKeys...), st.mu.Unlock().  With key shares missing,
\* Aggregate either panics (keysPanic) or yields a key that decrypts nothing.
scanMailbox(t, r, fetchOK, mb, keysPanic) ==
    /\ Spawned(t)
    /\ last' = Did("mailbox", r, "")
    /\ UNCHANGED otherVars
    /\ WithMu
    /\ UNCHANGED <<clientVars, stMu, lastDialingRound, connVars>>
    /\ IF ~HasRound(r)
       THEN Calls(scanMailbox_notFound, FALSE) /\ UNCHANGED <<task, crashed, calling>>
       ELSE IF ~fetchOK
       THEN Calls(<<ErrorEvent>>, FALSE) /\ BeginCall /\ UNCHANGED <<task, crashed>>
       ELSE LET st == addFriendRounds[r]
                spans == SpansOf(mb, FreeIds)
            IN  /\ stMu[r] = 0
                /\ keysPanic => ~AllSet(st.PrivateKeys)
                /\ Calls(<<>>, FALSE) /\ UNCHANGED calling
                /\ crashed' = keysPanic
                /\ IF AllSet(st.PrivateKeys) /\ \E i \in DOMAIN spans : spans[i].pc # "done"
                   THEN task' = [task EXCEPT ![t] =
                           [IdleTask EXCEPT !.pc = "scanSpans", !.round = r, !.spans = spans]]
                   ELSE UNCHANGED task

\* The spans of goroutine t that ParallelFor is still working on.
Pending(t) == {i \in DOMAIN task[t].spans : task[t].spans[i].pc # "done"}

\* The goroutines once span i of t has the given state: ParallelFor, and
\* with it the handler, returns when the last span is done.
WithSpan(t, i, span) ==
    IF span.pc = "done" /\ Pending(t) \subseteq {i}
    THEN [task EXCEPT ![t] = IdleTask]
    ELSE [task EXCEPT ![t].spans[i] = span]

\* decodeAddFriendMessage for one verified introduction, up to
\* sentReq := c.matchToSent(req).
decodeAddFriendMessage(t, i) ==
    LET span == task[t].spans[i]
        sentReq == matchToSent(span.intro)
    IN  /\ ~crashed /\ task[t].pc = "scanSpans" /\ i \in DOMAIN task[t].spans
        /\ last' = Did("mailbox.decode", task[t].round, "")
        /\ UNCHANGED otherVars
        /\ WithMu
        /\ UNCHANGED calling
        /\ span.pc = "pending"
        /\ Calls(<<>>, FALSE)
        /\ task' = IF sentReq = NoSent
                   THEN WithSpan(t, i, [span EXCEPT !.pc = "append"])
                   ELSE WithSpan(t, i, [span EXCEPT !.pc = "friend", !.sent = sentReq])
        /\ UNCHANGED <<clientVars, stMu, lastDialingRound, connVars, crashed, envelopes>>

\* c.incomingFriendRequests = append(c.incomingFriendRequests, req);
\* c.Handler.ReceivedFriendRequest(req)
decodeAddFriendMessage_append(t, i) ==
    LET span == task[t].spans[i]
    IN  /\ ~crashed /\ task[t].pc = "scanSpans" /\ i \in DOMAIN task[t].spans
        /\ last' = Did("mailbox.append", task[t].round, "")
        /\ UNCHANGED otherVars
        /\ WithMu
        /\ span.pc = "append"
        /\ Calls(<<Event("ReceivedFriendRequest", span.intro.Username)>>, FALSE) /\ BeginCall
        /\ incomingFriendRequests' = Append(incomingFriendRequests, span.intro)
        /\ task' = WithSpan(t, i, [span EXCEPT !.pc = "done"])
        /\ UNCHANGED <<addFriendRounds, addFriendConfig, addFriendConfigHash, registrations,
                       friends, outgoingFriendRequests, sentFriendRequests, stMu,
                       lastDialingRound, connVars, crashed, envelopes>>

\* c.newFriend(req, sentReq)
decodeAddFriendMessage_newFriend(t, i, persistOK) ==
    LET span == task[t].spans[i]
    IN  /\ ~crashed /\ task[t].pc = "scanSpans" /\ i \in DOMAIN task[t].spans
        /\ last' = Did("mailbox.newFriend", task[t].round, "")
        /\ UNCHANGED otherVars
        /\ WithMu
        /\ span.pc = "friend"
        /\ newFriend(span.intro, span.sent, persistOK) /\ BeginCall
        /\ task' = WithSpan(t, i, [span EXCEPT !.pc = "done"])
        /\ UNCHANGED <<addFriendRounds, addFriendConfig, addFriendConfigHash, registrations,
                       outgoingFriendRequests, stMu, lastDialingRound, connVars, crashed,
                       envelopes>>

\* ----------------------------------------------------- the application side
\* The requests the application queues: a new request, a new request that
\* names a key its target does not have, and a confirmation (Approve) that
\* names its target's key and the dial round of the request it answers.
OutgoingRequests ==
    {[Username |-> "bob", ExpectedKey |-> NoKey, Confirmation |-> FALSE, DialRound |-> 0],
     [Username |-> "bob", ExpectedKey |-> "kEve", Confirmation |-> FALSE, DialRound |-> 0],
     [Username |-> "eve", ExpectedKey |-> "kEve", Confirmation |-> TRUE, DialRound |-> MaxDialRound]}

\* The application queues a friend request (FIFO).
queueFriendRequest(req) ==
    /\ ~crashed
    /\ last' = Did("queue", 0, "")
    /\ UNCHANGED otherVars
    /\ WithMu
    /\ UNCHANGED calling
    /\ Len(outgoingFriendRequests) < MaxOutgoing
    /\ Calls(<<>>, FALSE)
    /\ outgoingFriendRequests' = Append(outgoingFriendRequests, req)
    /\ UNCHANGED <<addFriendRounds, addFriendConfig, addFriendConfigHash, registrations,
                   friends, incomingFriendRequests, sentFriendRequests, stMu,
                   lastDialingRound, task, connVars, crashed, envelopes>>

\* The dialing engine stores the round it has seen (monotonic).
storeLastDialingRound ==
    /\ ~crashed
    /\ last' = Did("dialing", 0, "")
    /\ UNCHANGED otherVars
    /\ UNCHANGED mu
    /\ UNCHANGED calling
    /\ lastDialingRound < MaxDialRound
    /\ Calls(<<>>, FALSE)
    /\ lastDialingRound' = lastDialingRound + 1
    /\ UNCHANGED <<clientVars, stMu, task, connVars, crashed, envelopes>>

\* A handler call in progress returns, and its goroutine ends.
handlerReturns ==
    /\ ~crashed /\ calling > 0
    /\ last' = Did("return", 0, "")
    /\ UNCHANGED otherVars
    /\ UNCHANGED mu
    /\ calling' = calling - 1
    /\ Calls(<<>>, FALSE)
    /\ UNCHANGED <<clientVars, stMu, lastDialingRound, task, connVars, crashed, envelopes>>

\* ------------------------------------------------------------ specification
Next ==
    \/ \E r \in Rounds, h \in Hashes : newAddFriendRound(r, h)
    \/ \E t \in Tasks, r \in Rounds, ok \in BOOLEAN : extractPKGKeys(t, r, ok)
    \/ \E t \in Tasks, res \in {"err", "badsig", "ok"} : extractPKGKeys_extract(t, res)
    \/ \E t \in Tasks, r \in Rounds, ok \in BOOLEAN, keysPanic \in BOOLEAN :
           sendAddFriendOnion(t, r, ok, keysPanic)
    \/ \E t \in Tasks, wrote \in BOOLEAN : sendAddFriendOnion_send(t, wrote)
    \/ \E t \in Tasks : sendAddFriendOnion_append(t)
    \/ \E t \in Tasks, persistOK \in BOOLEAN : sendAddFriendOnion_newFriend(t, persistOK)
    \/ \E t \in Tasks, r \in Rounds, ok \in BOOLEAN, mb \in Mailboxes, keysPanic \in BOOLEAN :
           scanMailbox(t, r, ok, mb, keysPanic)
    \/ \E t \in Tasks, i \in 1..MaxMailbox : decodeAddFriendMessage(t, i)
    \/ \E t \in Tasks, i \in 1..MaxMailbox : decodeAddFriendMessage_append(t, i)
    \/ \E t \in Tasks, i \in 1..MaxMailbox, persistOK \in BOOLEAN :
           decodeAddFriendMessage_newFriend(t, i, persistOK)
    \/ \E req \in OutgoingRequests : queueFriendRequest(req)
    \/ storeLastDialingRound
    \/ handlerReturns

Spec == Init /\ [][Next]_vars

\* ---------------------------------------- the mix step on a longer queue
\* The mix handlers of several rounds working on a queue of several
\* requests: the client as it is when the application has queued two
\* different requests before the first envelope arrives, with one round more
\* than Spec announces.
MixRounds == 1..(MaxRound + 1)

InitMix ==
    /\ addFriendRounds = [r \in {} |-> NewRoundState(0, "cA")]
    /\ stMu = [r \in MixRounds |-> 0]
    /\ mu = 0
    /\ addFriendConfig = "cA"
    /\ addFriendConfigHash = Hash("cA")
    /\ registrations = {"p1"}
    /\ friends = [u \in {} |-> [Username |-> "", LongTermKey |-> NoKey]]
    /\ incomingFriendRequests = <<>>
    /\ outgoingFriendRequests \in {q \in [1..2 -> OutgoingRequests] : q[1] # q[2]}
    /\ sentFriendRequests = <<>>
    /\ lastDialingRound = 0
    /\ task = [t \in Tasks |-> IdleTask]
    /\ onions = [r \in MixRounds |-> 0]
    /\ connMu = "free"
    /\ wsOpen = TRUE
    /\ crashed = FALSE
    /\ envelopes = 0
    /\ last = Did("init", 0, "")
    /\ emitted = <<>>
    /\ locked = <<>>
    /\ calling = 0
    /\ OtherInit

NextMix ==
    \/ \E r \in MixRounds, h \in Hashes : newAddFriendRound(r, h)
    \/ \E t \in Tasks, r \in MixRounds, ok \in BOOLEAN, keysPanic \in BOOLEAN :
           sendAddFriendOnion(t, r, ok, keysPanic)
    \/ \E t \in Tasks, wrote \in BOOLEAN : sendAddFriendOnion_send(t, wrote)
    \/ \E t \in Tasks : sendAddFriendOnion_append(t)
    \/ storeLastDialingRound
    \/ handlerReturns

SpecMix == InitMix /\ [][NextMix]_vars

\* ------------------------------------------- the mixers' signatures
\* st.Config.MixServers, by position.
MixServers(c) == IF c = "cA" THEN <<"m1", "m2">> ELSE <<"m1">>

\* v.MixSignatures, one per mixer of the round's config: TRUE where
\* ed25519.Verify(mixer.Key, settingsMsg, v.MixSignatures[i]) accepts.
MixSignatures(r) ==
    IF HasRound(r)
    THEN [1..Len(MixServers(addFriendRounds[r].Config)) -> BOOLEAN]
    ELSE {<<TRUE>>, <<FALSE>>}

VerifyMixSignatures_first(sigs) == sigs[1]

\* The loop over st.Config.MixServers: the first signature that does not
\* verify ends the handler.
VerifyMixSignatures(sigs) == \A i \in DOMAIN sigs : sigs[i]

\* The mix handler with the signatures of its message spelled out.
NextSigs ==
    \/ \E r \in MixRounds, h \in Hashes : newAddFriendRound(r, h)
    \/ \E t \in Tasks, r \in MixRounds, keysPanic \in BOOLEAN :
           \E sigs \in MixSignatures(r) :
               sendAddFriendOnion(t, r, VerifyMixSignatures(sigs), keysPanic)
    \/ \E t \in Tasks, wrote \in BOOLEAN : sendAddFriendOnion_send(t, wrote)
    \/ \E t \in Tasks : sendAddFriendOnion_append(t)
    \/ storeLastDialingRound
    \/ handlerReturns

SpecSigs == InitMix /\ [][NextSigs]_vars

\* ------------------------------------- the mailbox scan, phase by phase
\* The "mailbox" handler with its fetch as a step of its own, next to the
\* newround and pkg handlers of the rounds 1..(MaxRound + 1).

MuAfterLookup_held(t) == t

\* c.mu.Unlock() after st, ok := c.addFriendRounds[v.Round]: c.mu is free
\* again before the handler looks at ok.
MuAfterLookup(t) == 0

\* scanMailbox up to the fetch: the lookup of the round under c.mu; an
\* unknown round returns without a word.
scanMailbox_lookup(t, r) ==
    /\ Spawned(t)
    /\ last' = Did("mailbox", r, "")
    /\ UNCHANGED otherVars
    /\ mu = 0
    /\ mu' = MuAfterLookup(t)
    /\ Calls(<<>>, FALSE)
    /\ task' = IF HasRound(r)
               THEN [task EXCEPT ![t] = [IdleTask EXCEPT !.pc = "fetch", !.round = r]]
               ELSE task
    /\ UNCHANGED <<clientVars, stMu, lastDialingRound, connVars, crashed, calling>>

\* c.fetchMailbox returns: with an error the handler reports it and
\* returns; with the mailbox it takes st.mu for privKey :=
\* Aggregate(st.PrivateKeys...), releases it, and starts ParallelFor over
\* the spans.
scanMailbox_fetch(t, fetchOK, mb, keysPanic) ==
    LET r == task[t].round
        st == addFriendRounds[r]
        spans == SpansOf(mb, FreeIds)
    IN  /\ ~crashed /\ task[t].pc = "fetch"
        /\ last' = Did("mailbox.fetch", r, "")
        /\ UNCHANGED otherVars
        /\ UNCHANGED mu
        /\ UNCHANGED <<clientVars, stMu, lastDialingRound, connVars, envelopes>>
        /\ IF ~fetchOK
           THEN Calls(<<ErrorEvent>>, FALSE) /\ BeginCall /\ Finish(t) /\ UNCHANGED crashed
           ELSE /\ stMu[r] = 0
                /\ keysPanic => ~AllSet(st.PrivateKeys)
                /\ Calls(<<>>, FALSE) /\ UNCHANGED calling
                /\ crashed' = keysPanic
                /\ IF AllSet(st.PrivateKeys) /\ \E i \in DOMAIN spans : spans[i].pc # "done"
                   THEN task' = [task EXCEPT ![t] =
                           [IdleTask EXCEPT !.pc = "scanSpans", !.round = r, !.spans = spans]]
                   ELSE Finish(t)

NextScan ==
    \/ \E r \in MixRounds, h \in Hashes : newAddFriendRound(r, h)
    \/ \E t \in Tasks, r \in MixRounds, ok \in BOOLEAN : extractPKGKeys(t, r, ok)
    \/ \E t \in Tasks, res \in {"err", "badsig", "ok"} : extractPKGKeys_extract(t, res)
    \/ \E t \in Tasks, r \in MixRounds : scanMailbox_lookup(t, r)
    \/ \E t \in Tasks, ok \in BOOLEAN, mb \in Mailboxes, keysPanic \in BOOLEAN :
           scanMailbox_fetch(t, ok, mb, keysPanic)
    \/ \E t \in Tasks, i \in 1..MaxMailbox : decodeAddFriendMessage(t, i)
    \/ \E t \in Tasks, i \in 1..MaxMailbox : decodeAddFriendMessage_append(t, i)
    \/ handlerReturns

InitScan ==
    /\ addFriendRounds = [r \in {} |-> NewRoundState(0, "cA")]
    /\ stMu = [r \in MixRounds |-> 0]
    /\ mu = 0
    /\ addFriendConfig = "cA"
    /\ addFriendConfigHash = Hash("cA")
    /\ registrations = {"p1"}
    /\ friends = [u \in {} |-> [Username |-> "", LongTermKey |-> NoKey]]
    /\ incomingFriendRequests = <<>>
    /\ outgoingFriendRequests = <<>>
    /\ sentFriendRequests = <<>>
    /\ lastDialingRound = 0
    /\ task = [t \in Tasks |-> IdleTask]
    /\ onions = [r \in MixRounds |-> 0]
    /\ connMu = "free"
    /\ wsOpen = TRUE
    /\ crashed = FALSE
    /\ envelopes = 0
    /\ last = Did("init", 0, "")
    /\ emitted = <<>>
    /\ locked = <<>>
    /\ calling = 0
    /\ OtherInit

SpecScan == InitScan /\ [][NextScan]_vars

\* ------------------------------------------------------- the bloom filter
\* bloom.Filter as New(sizeBits, numHashes) makes it, scaled down: a bitset
\* of FilterBits bits and FilterHashes hash functions, over MaxElems
\* elements.  The hash functions are any functions from elements to bit
\* positions, fixed for the life of the process.
FilterBits == 4
FilterHashes == 2
MaxElems == 3

Bits == 0..(FilterBits - 1)
Elems == 1..MaxElems

\* f.test(i)
test(bits, i) == i \in bits

\* f.set(i)
set(bits, i) == bits \cup {i}

AfterSet_first(bits, x) == set(bits, hashOf[x][1])

\* The bitset after f.Set(x): the bit of every hash function set.
AfterSet(bits, x) == UNION {set(bits, hashOf[x][i]) : i \in 1..FilterHashes}

\* f.Test(x): the bit of every hash function is set.
Filter_Test(x) == \A i \in 1..FilterHashes : test(data, hashOf[x][i])

\* New(sizeBits, numHashes)
Filter_New ==
    /\ data' = {}
    /\ wasSet' = {}
    /\ UNCHANGED <<hashOf, engineVars, sessionVars, serverVars, lockOps>>

\* f.Set(x)
Filter_Set(x) ==
    /\ data' = AfterSet(data, x)
    /\ wasSet' = wasSet \cup {x}
    /\ UNCHANGED <<hashOf, engineVars, sessionVars, serverVars, lockOps>>

InitBloom ==
    /\ EngineInit
    /\ data = {}
    /\ hashOf \in [Elems -> [1..FilterHashes -> Bits]]
    /\ wasSet = {}
    /\ connected = TRUE
    /\ dialingOpen = TRUE
    /\ ret = "nil"
    /\ users = <<>>
    /\ statusArgs = <<>>
    /\ lockOps = [t \in Tasks |-> NoOps]

NextBloom ==
    \/ Filter_New
    \/ \E x \in Elems : Filter_Set(x)

SpecBloom == InitBloom /\ [][NextBloom]_vars

\* ------------------------------------------------------------ the session
\* How far a call of Connect gets: a missing config client or config, an
\* unreadable keywheel file, a failed fetch of the add-friend config, a
\* failed dial of the add-friend coordinator, a failed fetch of the dialing
\* config, a failed dial of the dialing coordinator, or all of it ("ok").
ConnectOutcomes == {"noConfig", "keywheel", "addFriendConfig", "addFriendDial",
                    "dialingConfig", "dialingDial", "ok"}

\* The add-friend connection is open when Connect returns after it has
\* dialed it: addFriendConn.Close() is called where the dial of the dialing
\* coordinator fails, and nowhere else.
AddFriendConnAfter(outcome) == outcome # "dialingDial"

\* Client.Connect
Connect(outcome) ==
    /\ ~crashed
    /\ last' = Did("Connect", 0, "")
    /\ WithMu
    /\ Calls(<<>>, FALSE)
    /\ UNCHANGED <<filterVars, serverVars, lockOps, stMu, addFriendConfig, addFriendConfigHash, registrations,
                   friends, incomingFriendRequests, outgoingFriendRequests,
                   sentFriendRequests, lastDialingRound, task, onions, crashed,
                   envelopes, calling>>
    /\ IF connected
       THEN /\ ret' = "already connected"
            /\ UNCHANGED <<addFriendRounds, wsOpen, connMu, connected, dialingOpen>>
       ELSE IF outcome \in {"noConfig", "keywheel"}
       THEN /\ ret' = outcome
            /\ UNCHANGED <<addFriendRounds, wsOpen, connMu, connected, dialingOpen>>
       ELSE /\ addFriendRounds' = [r \in {} |-> NewRoundState(0, "cA")]
            /\ ret' = IF outcome = "ok" THEN "nil" ELSE outcome
            /\ IF outcome \in {"addFriendConfig", "addFriendDial"}
               THEN UNCHANGED <<wsOpen, connMu>>
               ELSE wsOpen' = AddFriendConnAfter(outcome) /\ connMu' = "free"
            /\ dialingOpen' = (outcome = "ok" \/ dialingOpen)
            /\ connected' = (outcome = "ok")

\* Client.Close; closeErr: what closing the connections returns.
Close(closeErr) ==
    /\ ~crashed
    /\ last' = Did("Close", 0, "")
    /\ WithMu
    /\ Calls(<<>>, FALSE)
    /\ UNCHANGED <<filterVars, serverVars, lockOps, addFriendRounds, stMu, addFriendConfig, addFriendConfigHash,
                   registrations, friends, incomingFriendRequests, outgoingFriendRequests,
                   sentFriendRequests, lastDialingRound, task, onions, connMu, crashed,
                   envelopes, calling>>
    /\ IF ~connected
       THEN /\ ret' = "not connected"
            /\ UNCHANGED <<wsOpen, connected, dialingOpen>>
       ELSE /\ connected' = FALSE
            /\ dialingOpen' = FALSE
            /\ wsOpen' = FALSE
            /\ ret' = closeErr

NextSession ==
    \/ \E outcome \in ConnectOutcomes : Connect(outcome)
    \/ \E closeErr \in {"nil", "close"} : Close(closeErr)
    \/ \E r \in Rounds, h \in Hashes : newAddFriendRound(r, h)

SpecSession == Init /\ [][NextSession]_vars

\* --------------------------------------------- c.mu held by another thread
\* The application's thread, as a holder of c.mu.
App == MaxTasks + 1

\* Client.PKGStatus up to c.mu.Lock(): the application's thread holds c.mu
\* while the engine's goroutines run.
PKGStatus_lock ==
    /\ ~crashed
    /\ mu = 0
    /\ mu' = App
    /\ last' = Did("PKGStatus", 0, "")
    /\ Calls(<<>>, FALSE)
    /\ UNCHANGED <<otherVars, clientVars, stMu, lastDialingRound, task, connVars, crashed,
                   envelopes, calling>>

\* conf := c.addFriendConfig; c.mu.Unlock()
PKGStatus_unlock ==
    /\ ~crashed
    /\ mu = App
    /\ mu' = 0
    /\ last' = Did("PKGStatus.unlock", 0, "")
    /\ Calls(<<>>, FALSE)
    /\ UNCHANGED <<otherVars, clientVars, stMu, lastDialingRound, task, connVars, crashed,
                   envelopes, calling>>

NextLocks ==
    \/ \E r \in Rounds, h \in Hashes : newAddFriendRound(r, h)
    \/ \E t \in Tasks, r \in Rounds, ok \in BOOLEAN : extractPKGKeys(t, r, ok)
    \/ \E t \in Tasks, res \in {"err", "badsig", "ok"} : extractPKGKeys_extract(t, res)
    \/ \E t \in Tasks, r \in Rounds, ok \in BOOLEAN, keysPanic \in BOOLEAN :
           sendAddFriendOnion(t, r, ok, keysPanic)
    \/ \E t \in Tasks, wrote \in BOOLEAN : sendAddFriendOnion_send(t, wrote)
    \/ \E t \in Tasks : sendAddFriendOnion_append(t)
    \/ \E t \in Tasks, persistOK \in BOOLEAN : sendAddFriendOnion_newFriend(t, persistOK)
    \/ \E t \in Tasks, r \in Rounds, ok \in BOOLEAN, mb \in Mailboxes, keysPanic \in BOOLEAN :
           scanMailbox(t, r, ok, mb, keysPanic)
    \/ \E t \in Tasks, i \in 1..MaxMailbox : decodeAddFriendMessage(t, i)
    \/ \E t \in Tasks, i \in 1..MaxMailbox : decodeAddFriendMessage_append(t, i)
    \/ \E t \in Tasks, i \in 1..MaxMailbox, persistOK \in BOOLEAN :
           decodeAddFriendMessage_newFriend(t, i, persistOK)
    \/ \E req \in OutgoingRequests : queueFriendRequest(req)
    \/ PKGStatus_lock
    \/ PKGStatus_unlock

SpecLocks == Init /\ [][NextLocks]_vars

\* ------------------------------------------------------- the PKG server
\* The usernames a status request can carry: two that UsernameToIdentity
\* accepts and one that it rejects.
ValidUsernames == Users
StatusUsernames == ValidUsernames \cup {"B@d"}

\* A user of the database: none (getUser returns nil), or its status and
\* login key.
NoUser == [Status |-> "none", Key |-> NoKey]
UserRecords == {NoUser} \cup [Status : {"unverified", "verified"}, Key : Keys]

\* A signature: the key that made it and what it signs.
Signatures == [key : Keys, Username : StatusUsernames, Message : {0, 1}]

StatusArgs == [Username : StatusUsernames, Message : {0, 1}, Signature : Signatures]

\* ed25519.Verify(key, args.msg(), args.Signature): args.msg() is made of
\* the server's key, the identity of args.Username and args.Message.
VerifyStatus(key, args) ==
    /\ args.Signature.key = key
    /\ args.Signature.Username = args.Username
    /\ args.Signature.Message = args.Message

checkStatus_signatureFirst(args, getUserErr) ==
    IF args.Username \notin ValidUsernames THEN "ErrInvalidUsername"
    ELSE IF getUserErr THEN "getUser"
    ELSE IF users[args.Username].Status = "none" THEN "ErrNotRegistered"
    ELSE IF ~VerifyStatus(users[args.Username].Key, args) THEN "ErrInvalidSignature"
    ELSE IF users[args.Username].Status # "verified" THEN "ErrNotVerified"
    ELSE "nil"

\* Server.checkStatus: what it returns for args when srv.getUser fails
\* (getUserErr) or answers from the database.
checkStatus(args, getUserErr) ==
    IF args.Username \notin ValidUsernames THEN "ErrInvalidUsername"
    ELSE IF getUserErr THEN "getUser"
    ELSE IF users[args.Username].Status = "none" THEN "ErrNotRegistered"
    ELSE IF users[args.Username].Status # "verified" THEN "ErrNotVerified"
    ELSE IF ~VerifyStatus(users[args.Username].Key, args) THEN "ErrInvalidSignature"
    ELSE "nil"

\* A status request is served.
Server_checkStatus(args, getUserErr) ==
    /\ last' = Did("checkStatus", 0, "")
    /\ statusArgs' = [args |-> args, getUserErr |-> getUserErr]
    /\ ret' = checkStatus(args, getUserErr)
    /\ Calls(<<>>, FALSE)
    /\ UNCHANGED <<users, filterVars, lockOps, connected, dialingOpen, clientVars, stMu, mu,
                   lastDialingRound, task, connVars, crashed, envelopes, calling>>

\* The server with any database over the valid usernames.
InitStatus ==
    /\ EngineInit
    /\ data = {}
    /\ hashOf = [x \in {} |-> <<>>]
    /\ wasSet = {}
    /\ connected = TRUE
    /\ dialingOpen = TRUE
    /\ ret = "nil"
    /\ users \in [ValidUsernames -> UserRecords]
    /\ statusArgs = <<>>
    /\ lockOps = [t \in Tasks |-> NoOps]

NextStatus ==
    \E args \in StatusArgs, getUserErr \in BOOLEAN : Server_checkStatus(args, getUserErr)

SpecStatus == InitStatus /\ [][NextStatus]_vars

\* ------------------------------------- the handlers as lock programs
\* Each handler reduced to the c.mu and st.mu operations of one of its
\* paths, in the order the code makes them; the goroutines run them one
\* operation at a time.
LockMu == [op |-> "Lock", lock |-> "c.mu"]
UnlockMu == [op |-> "Unlock", lock |-> "c.mu"]
LockSt == [op |-> "Lock", lock |-> "st.mu"]
UnlockSt == [op |-> "Unlock", lock |-> "st.mu"]

RoundLookup_held == <<LockMu>>

\* c.mu.Lock(); st, ok := c.addFriendRounds[round]; c.mu.Unlock()
RoundLookup == <<LockMu, UnlockMu>>

\* A c.mu.Lock() ... c.mu.Unlock() pair around queue or map accesses:
\* the registration lookup, nextOutgoingFriendRequest, matchToIncoming,
\* matchToSent, the two appends and the body of newFriend.
MuSection == <<LockMu, UnlockMu>>

RECURSIVE Times(_, _)
Times(ops, k) == IF k = 0 THEN <<>> ELSE ops \o Times(ops, k - 1)

\* newAddFriendRound: c.mu from entry to return.
newAddFriendRound_locks == {<<LockMu, UnlockMu>>}

\* extractPKGKeys: the round is unknown; or st.mu and a return before the
\* loop; or st.mu and k iterations of the loop, each with one registration
\* lookup under c.mu.
extractPKGKeys_locks ==
    {RoundLookup, RoundLookup \o <<LockSt, UnlockSt>>}
      \cup {RoundLookup \o <<LockSt>> \o Times(MuSection, k) \o <<UnlockSt>> :
               k \in 1..Len(PKGServers("cB"))}

\* sendAddFriendOnion: a return before st.mu.Lock(); a cover onion
\* (nextOutgoingFriendRequest only); a real one (nextOutgoingFriendRequest,
\* matchToIncoming, then newFriend or the append to the sent queue).
sendAddFriendOnion_locks ==
    {RoundLookup,
     RoundLookup \o <<LockSt>> \o MuSection \o <<UnlockSt>>,
     RoundLookup \o <<LockSt>> \o Times(MuSection, 3) \o <<UnlockSt>>}

\* scanMailbox: a return before st.mu.Lock(); or st.mu around the
\* aggregation of the private keys and then, for each of k introductions
\* that verify, matchToSent and newFriend or the append to the incoming
\* queue.
scanMailbox_locks ==
    {RoundLookup}
      \cup {RoundLookup \o <<LockSt, UnlockSt>> \o Times(MuSection, 2 * k) : k \in 0..MaxMailbox}

Handlers == {"newround", "pkg", "mix", "mailbox"}

\* The mux of addFriendMux.
HandlerLocks(h) ==
    CASE h = "newround" -> newAddFriendRound_locks
      [] h = "pkg" -> extractPKGKeys_locks
      [] h = "mix" -> sendAddFriendOnion_locks
      [] OTHER -> scanMailbox_locks

Running(t) == lockOps[t].ops # <<>>

NextOp(t) == Head(lockOps[t].ops)

\* What is left of the handler of t after its next operation.
Advance(t) ==
    lockOps' = [lockOps EXCEPT ![t] =
                   IF Len(lockOps[t].ops) = 1
                   THEN NoOps
                   ELSE [round |-> lockOps[t].round, ops |-> Tail(lockOps[t].ops)]]

orderRest == <<clientVars, lastDialingRound, task, connVars, crashed, envelopes, last,
               emitted, locked, calling, filterVars, sessionVars, serverVars>>

\* go c.mux.openEnvelope(c, &e): a goroutine starts the handler of the
\* envelope's message, for round r, and will take the path ops.
openEnvelope(t, h, r, ops) ==
    /\ ~Running(t)
    /\ ops \in HandlerLocks(h)
    /\ lockOps' = [lockOps EXCEPT ![t] = [round |-> r, ops |-> ops]]
    /\ UNCHANGED <<mu, stMu, orderRest>>

\* sync.Mutex.Lock: the goroutine waits until the mutex is free, whoever
\* holds it, itself included.
Mutex_Lock(t) ==
    /\ Running(t) /\ NextOp(t).op = "Lock"
    /\ IF NextOp(t).lock = "c.mu"
       THEN mu = 0 /\ mu' = t /\ UNCHANGED stMu
       ELSE /\ stMu[lockOps[t].round] = 0
            /\ stMu' = [stMu EXCEPT ![lockOps[t].round] = t]
            /\ UNCHANGED mu
    /\ Advance(t)
    /\ UNCHANGED orderRest

\* sync.Mutex.Unlock
Mutex_Unlock(t) ==
    /\ Running(t) /\ NextOp(t).op = "Unlock"
    /\ IF NextOp(t).lock = "c.mu"
       THEN mu' = 0 /\ UNCHANGED stMu
       ELSE stMu' = [stMu EXCEPT ![lockOps[t].round] = 0] /\ UNCHANGED mu
    /\ Advance(t)
    /\ UNCHANGED orderRest

InitOrder == InitScan

NextOrder ==
    \/ \E t \in Tasks, h \in Handlers, r \in MixRounds :
           \E ops \in HandlerLocks(h) : openEnvelope(t, h, r, ops)
    \/ \E t \in Tasks : Mutex_Lock(t)
    \/ \E t \in Tasks : Mutex_Unlock(t)

SpecOrder == InitOrder /\ [][NextOrder]_vars

\* ------------------------------------------------------------------ claims
\* The goroutine t took the step.
Moved(t) == task'[t] # task[t]

SameUserAndRound(a, b) == a.Username = b.Username /\ a.DialRound = b.DialRound

Without(q, id) == SelectSeq(q, LAMBDA x : x.id # id)

AllIdle == \A t \in Tasks : task[t].pc = "idle"

\* A mix handler of round r has returned from conn.Send.
PastSend(r) == \E t \in Tasks : task[t].round = r /\ task[t].pc \in {"mixAppend", "mixFriend"}

\* C1: for every add-friend round, whatever newround, pkg, mix and mailbox
\* messages arrive (repetitions included), at most one onion is sent for the
\* round, and one has been sent once a mix handler of the round is past its
\* send on an open connection: never none, never two or more.
C1_ExactlyOneOnion ==
    \A r \in Rounds : onions[r] <= 1 /\ (PastSend(r) /\ wsOpen => onions[r] = 1)

\* C2: whether a mix message for a configured round leads to an onion does
\* not depend on the outgoing queue.  A mix message with verified signatures
\* starts the send whatever the queue holds, with a cover request (empty
\* username) when the queue is empty; the send writes one onion for a cover
\* request as for a real one; and for a cover request it calls no handler
\* (no SentFriendRequest), leaves the sent queue, the incoming queue and the
\* friends alone and ends the handler.
C2_CoverOnion ==
    [][\A t \in Tasks :
         /\ (last'.op = "mix" /\ HasRound(last'.round) /\ emitted' = <<>> /\ t = MinOf(IdleTasks))
               => /\ task'[t].pc = "mixSend"
                  /\ outgoingFriendRequests = <<>> => task'[t].sent.Username = ""
                  /\ sentFriendRequests' = sentFriendRequests
         /\ (last'.op = "mix.send" /\ task[t].pc = "mixSend" /\ Moved(t))
               => /\ wsOpen' => onions'[task[t].round] = onions[task[t].round] + 1
                  /\ task[t].sent.Username = ""
                        => /\ emitted' = <<>>
                           /\ task'[t] = IdleTask
                           /\ UNCHANGED <<sentFriendRequests, incomingFriendRequests, friends>>
      ]_vars

\* A cover onion has been written: the send step called no handler.
C2_Witness ==
    /\ last.op = "mix.send" /\ emitted = <<>> /\ wsOpen
    /\ onions[last.round] = 1 /\ sentFriendRequests = <<>> /\ AllIdle

\* What pairing inReq with sentReq does to the client state.
Paired(inReq, sentReq) ==
    /\ incomingFriendRequests' = Without(incomingFriendRequests, inReq.id)
    /\ sentFriendRequests' = Without(sentFriendRequests, sentReq.id)
    /\ friends' = MapPut(friends, inReq.Username,
                         [Username |-> inReq.Username, LongTermKey |-> inReq.LongTermKey])

\* C3: a sent request and an incoming request are paired if and only if
\* their username and dial round are both equal: the mix handler goes on to
\* newFriend exactly when a queued incoming request has the username and
\* dial round of the sent request, the mailbox handler exactly when a queued
\* sent request has those of the introduction, each with such a request; and
\* newFriend removes exactly those two requests from the queues (the others
\* stay, in order) and adds a Friend for the username.
C3_Pairing ==
    [][\A t \in Tasks :
         /\ (last'.op = "mix.send" /\ task[t].pc = "mixSend" /\ Moved(t)
               /\ task[t].sent.Username # "")
               => /\ task'[t].pc = "mixFriend" <=>
                        \E i \in DOMAIN incomingFriendRequests :
                            SameUserAndRound(incomingFriendRequests[i], task[t].sent)
                  /\ task'[t].pc = "mixFriend" =>
                        /\ SameUserAndRound(task'[t].inReq, task[t].sent)
                        /\ task'[t].inReq \in Range(incomingFriendRequests)
         /\ (last'.op = "mailbox.decode" /\ Moved(t))
               => \A i \in DOMAIN task[t].spans :
                     task'[t].spans[i] # task[t].spans[i]
                        => /\ task'[t].spans[i].pc = "friend" <=>
                                 \E j \in DOMAIN sentFriendRequests :
                                     SameUserAndRound(task[t].spans[i].intro, sentFriendRequests[j])
                           /\ task'[t].spans[i].pc = "friend" =>
                                 /\ SameUserAndRound(task[t].spans[i].intro, task'[t].spans[i].sent)
                                 /\ task'[t].spans[i].sent \in Range(sentFriendRequests)
         /\ (last'.op = "mix.newFriend" /\ Moved(t)) => Paired(task[t].inReq, task[t].sent)
         /\ (last'.op = "mailbox.newFriend" /\ Moved(t))
               => \E i \in DOMAIN task[t].spans :
                     /\ task[t].spans[i].pc = "friend"
                     /\ Paired(task[t].spans[i].intro, task[t].spans[i].sent)
      ]_vars

\* Two requests have been paired while another request stays queued.
C3_Witness ==
    /\ last.op \in {"mix.newFriend", "mailbox.newFriend"}
    /\ DOMAIN friends # {}
    /\ Len(incomingFriendRequests) + Len(sentFriendRequests) >= 1

\* C4: a sent request and an incoming request with equal username and dial
\* round are paired whatever the interleaving of the mix handler and the
\* mailbox handler: once the handlers have returned, no such two requests are
\* both left in their queues.
C4_NoMatchingPairLeft ==
    AllIdle =>
        ~\E i \in DOMAIN incomingFriendRequests, j \in DOMAIN sentFriendRequests :
            SameUserAndRound(incomingFriendRequests[i], sentFriendRequests[j])

\* The sent requests that the introduction answers with a key other than
\* the one the request expects.
UnexpectedKey(inReq) ==
    {j \in DOMAIN sentFriendRequests :
        /\ SameUserAndRound(inReq, sentFriendRequests[j])
        /\ sentFriendRequests[j].ExpectedKey \notin {NoKey, inReq.LongTermKey}}

\* C5: when a verified introduction has the username and dial round of a
\* sent request that expects another long-term key, the engine calls
\* UnexpectedSigningKey, creates no Friend and does not queue the incoming
\* request: no request is ever paired with an introduction whose key it
\* does not expect.
C5_UnexpectedSigningKey ==
    [][\A t \in Tasks :
         /\ (last'.op = "mailbox.decode" /\ Moved(t))
               => \A i \in DOMAIN task[t].spans :
                     (task'[t].spans[i] # task[t].spans[i]
                         /\ UnexpectedKey(task[t].spans[i].intro) # {})
                        => /\ \E k \in DOMAIN emitted' : emitted'[k].kind = "UnexpectedSigningKey"
                           /\ UNCHANGED <<friends, incomingFriendRequests>>
         /\ (last'.op = "mailbox.newFriend" /\ Moved(t))
               => \A i \in DOMAIN task[t].spans :
                     task[t].spans[i].pc = "friend"
                        => task[t].spans[i].sent.ExpectedKey
                              \in {NoKey, task[t].spans[i].intro.LongTermKey}
         /\ (last'.op = "mix.newFriend" /\ Moved(t))
               => task[t].sent.ExpectedKey \in {NoKey, task[t].inReq.LongTermKey}
      ]_vars

\* The configuration of every round state stays the one it was created with.
RoundConfigsKept ==
    \A r \in DOMAIN addFriendRounds :
        /\ r \in DOMAIN addFriendRounds'
        /\ addFriendRounds'[r].Round = r
        /\ addFriendRounds'[r].Config = addFriendRounds[r].Config

\* C6: a newround message for a round that has a state entry, announcing
\* the hash of that entry's configuration, changes nothing and calls no
\* handler; a round has one state entry, created once, whose configuration
\* never changes afterwards.
C6_SameHashNoOp ==
    [][/\ (last'.op = "newround" /\ HasRound(last'.round)
              /\ Hash(addFriendRounds[last'.round].Config) = last'.hash)
          => /\ emitted' = <<>>
             /\ UNCHANGED <<clientVars, stMu, lastDialingRound, task, connVars, crashed>>
       /\ RoundConfigsKept
      ]_vars

\* A round whose keys were already extracted has been announced again with
\* the same hash.
C6_Witness ==
    /\ last.op = "newround" /\ HasRound(last.round)
    /\ Hash(addFriendRounds[last.round].Config) = last.hash
    /\ AllSet(addFriendRounds[last.round].PrivateKeys)
    /\ emitted = <<>>

\* C7: a newround message for a round that has a state entry with hash H1,
\* announcing another hash H2, calls Error and nothing else (so no
\* configuration was fetched), keeps the state entry with H1 and leaves the
\* client's add-friend configuration, its hash and the registrations alone.
C7_DifferentHashError ==
    [][(last'.op = "newround" /\ HasRound(last'.round)
           /\ Hash(addFriendRounds[last'.round].Config) # last'.hash)
          => /\ emitted' = <<ErrorEvent>>
             /\ UNCHANGED <<clientVars, stMu, lastDialingRound, task, connVars, crashed>>
      ]_vars

\* A configured round has been announced again with another hash.
C7_Witness ==
    /\ last.op = "newround" /\ HasRound(last.round)
    /\ Hash(addFriendRounds[last.round].Config) # last.hash
    /\ emitted = <<ErrorEvent>>

\* The PKG keys of round r are all extracted.
Extracted(r) ==
    /\ AllSet(addFriendRounds[r].ServerMasterKeys)
    /\ AllSet(addFriendRounds[r].PrivateKeys)
    /\ AllSet(addFriendRounds[r].IdentitySigs)

\* C8: within a round the steps happen in the order newround, pkg, mix,
\* mailbox: an onion is written for round r only when r has a state entry
\* whose PKG keys are all extracted, and the mailbox of round r is scanned
\* only after the onion of round r was written.
C8_RoundOrder ==
    [][/\ \A r \in Rounds :
            onions'[r] > onions[r] => HasRound(r) /\ Extracted(r)
       /\ (last'.op = "mailbox" /\ task' # task) => onions[last'.round] >= 1
      ]_vars

\* C9: a newround message for a round without state entry, announcing a
\* hash other than the client's current one, installs a configuration only
\* if fetch-and-verify succeeds, and then the one with the announced hash,
\* also in the new state entry; if it fails, the handler calls Error and
\* nothing else, creates no state entry and leaves the configuration, its
\* hash and the registrations alone.  Nothing else changes the configuration.
C9_InstallOnlyVerified ==
    [][/\ (last'.op = "newround" /\ ~HasRound(last'.round)
              /\ last'.hash # addFriendConfigHash)
          => IF ChainVerifies(addFriendConfig, last'.hash) /\ emitted' # <<ErrorEvent>>
             THEN /\ addFriendConfigHash' = last'.hash
                  /\ Hash(addFriendConfig') = last'.hash
                  /\ last'.round \in DOMAIN addFriendRounds'
                  /\ addFriendRounds'[last'.round].Config = addFriendConfig'
             ELSE /\ emitted' = <<ErrorEvent>>
                  /\ UNCHANGED <<clientVars, stMu, lastDialingRound, task, connVars, crashed>>
       /\ (addFriendConfig' # addFriendConfig \/ addFriendConfigHash' # addFriendConfigHash)
          => /\ last'.op = "newround" /\ ~HasRound(last'.round)
             /\ ChainVerifies(addFriendConfig, last'.hash)
      ]_vars

\* An unknown round was announced with a hash whose chain does not verify.
C9_Witness ==
    /\ last.op = "newround" /\ ~HasRound(last.round)
    /\ last.hash # addFriendConfigHash
    /\ emitted = <<ErrorEvent>>

InSource(e) == e.kind # "NewConfig"

\* C11: handler calls are delivered one at a time: while a handler call is
\* in progress no goroutine makes another handler call, also when several
\* envelopes are dispatched concurrently.
C11_OneCallAtATime ==
    [][calling > 0 => \A i \in DOMAIN emitted' : ~InSource(emitted'[i])]_vars

\* C12: the engine never calls an application handler while it holds c.mu,
\* so that a handler that calls an engine method taking c.mu (PKGStatus,
\* Close) returns.
C12_NoCallUnderLock ==
    \A i \in DOMAIN locked : InSource(emitted[i]) => ~locked[i]

\* C13: a persistence failure is fatal on every path that persists: a step
\* in which persistLocked fails halts the engine, and a halted engine takes
\* no further step.  In newFriend the failure shows as the Error call before
\* ConfirmedFriend; in loadAddFriendConfig it is the only way the newround
\* handler halts.
C13_PersistFailureFatal ==
    [][/\ ~crashed
       /\ (last'.op \in {"mix.newFriend", "mailbox.newFriend"} /\ ErrorEvent \in Range(emitted'))
             => crashed'
      ]_vars

\* C14: the round states held are bounded because a round's state is
\* removed when its mailbox phase completes: when a mailbox handler returns,
\* its round has no state entry any more.
C14_RoundStateRemoved ==
    [][\A t \in Tasks :
          (task[t].pc = "scanSpans" /\ task'[t].pc = "idle")
             => task[t].round \notin DOMAIN addFriendRounds'
      ]_vars


\* The mailbox handler pairs the introduction of span i of goroutine t, and
\* the pairing makes its sender a friend and calls ConfirmedFriend.
Befriends(t, i) ==
    /\ last'.op = "mailbox.decode" => task'[t].spans[i].pc = "friend"
    /\ last'.op = "mailbox.newFriend"
          => /\ task[t].spans[i].intro.Username \in DOMAIN friends'
             /\ Event("ConfirmedFriend", task[t].spans[i].intro.Username) \in Range(emitted')

\* The span of goroutine t that a step of the mailbox handler works on.
Worked(t, i) ==
    /\ Moved(t) /\ i \in DOMAIN task[t].spans
    /\ \/ last'.op = "mailbox.decode" /\ task'[t].spans[i] # task[t].spans[i]
       \/ last'.op = "mailbox.newFriend" /\ task[t].spans[i].pc = "friend"

C16_PkgIdempotent ==
    [][(last'.op = "pkg" /\ HasRound(last'.round)
           /\ addFriendRounds[last'.round].PrivateKeys # <<>>)
          => /\ emitted' = <<>>
             /\ UNCHANGED <<clientVars, stMu, lastDialingRound, task, connVars, crashed>>
      ]_vars

\* A pkg message has arrived for a round whose keys were all extracted.
C16_Witness ==
    /\ last.op = "pkg" /\ HasRound(last.round) /\ AllIdle
    /\ Extracted(last.round)
    /\ emitted = <<>>

\* C17: a failed Extract is retried: a pkg message with valid settings for
\* a round that still misses key shares, the client being registered with
\* every PKG of the round and no extraction being under way, starts the
\* extraction again.
C17_ExtractRetried ==
    [][(last'.op = "pkg" /\ HasRound(last'.round)
           /\ ~AllSet(addFriendRounds[last'.round].PrivateKeys)
           /\ Range(PKGServers(addFriendRounds[last'.round].Config)) \subseteq registrations
           /\ emitted' = <<>>)
          => \E t \in Tasks : task'[t].pc = "pkgExtract" /\ task'[t].round = last'.round
      ]_vars

\* The extraction step stored key shares without an identity signature:
\* the PKG's signature did not verify.
BadIdentitySig ==
    /\ last'.op = "pkg.extract"
    /\ \E i \in DOMAIN addFriendRounds[last'.round].PrivateKeys :
          /\ ~addFriendRounds[last'.round].PrivateKeys[i]
          /\ addFriendRounds'[last'.round].PrivateKeys[i]
          /\ ~addFriendRounds'[last'.round].IdentitySigs[i]

\* C18: a cryptographic verification failure on an untrusted input is
\* dropped silently.  A pkg message for a configured round calls no handler
\* whatever settings it carries (the only check at that point is the
\* settings' signatures); a PKG answer with an invalid identity signature
\* calls no handler; decoding a mailbox calls Error for nothing (a span that
\* fails to decrypt, parse or verify is skipped); and none of these changes
\* the friends or the request queues.
C18_SilentDrop ==
    [][/\ (last'.op = "pkg" /\ HasRound(last'.round))
             => /\ emitted' = <<>>
                /\ UNCHANGED <<friends, incomingFriendRequests, sentFriendRequests>>
       /\ BadIdentitySig
             => /\ emitted' = <<>>
                /\ UNCHANGED <<friends, incomingFriendRequests, sentFriendRequests>>
       /\ last'.op = "mailbox"
             => UNCHANGED <<friends, incomingFriendRequests, sentFriendRequests>>
       /\ last'.op \in {"mailbox.decode", "mailbox.append"}
             => ErrorEvent \notin Range(emitted')
      ]_vars


\* The sent requests, by position, that have the username and dial round
\* of the incoming request.
MatchingSent(inReq) ==
    {j \in DOMAIN sentFriendRequests : SameUserAndRound(inReq, sentFriendRequests[j])}

\* C20: when several sent requests have the username and dial round of an
\* incoming request, the mailbox handler pairs the earliest-queued of them,
\* and the pairing removes that one alone from the sent queue: the others
\* remain.
C20_EarliestSentPaired ==
    [][\A t \in Tasks :
         /\ (last'.op = "mailbox.decode" /\ Moved(t))
               => \A i \in DOMAIN task[t].spans :
                     (task'[t].spans[i] # task[t].spans[i]
                         /\ MatchingSent(task[t].spans[i].intro) # {})
                        => task'[t].spans[i].sent =
                              sentFriendRequests[MinOf(MatchingSent(task[t].spans[i].intro))]
         /\ (last'.op = "mailbox.newFriend" /\ Moved(t))
               => \E i \in DOMAIN task[t].spans :
                     /\ task[t].spans[i].pc = "friend"
                     /\ sentFriendRequests' = Without(sentFriendRequests, task[t].spans[i].sent.id)
      ]_vars

\* The mailbox handler has picked the first of two matching sent requests.
C20_Witness ==
    /\ last.op = "mailbox.decode"
    /\ \E t \in Tasks : \E i \in DOMAIN task[t].spans :
          /\ task[t].spans[i].pc = "friend"
          /\ Cardinality(MatchingSent(task[t].spans[i].intro)) >= 2
          /\ task[t].spans[i].sent = sentFriendRequests[1]


\* C19: outgoing requests are sent in FIFO order.  A mix step that starts a
\* send takes the request at the head of the outgoing queue and leaves the
\* rest of the queue in order (a cover request when the queue is empty);
\* the send is for the request taken; nothing else takes a request from the
\* queue; and a request that a mix handler has taken is no longer in the
\* queue and is in no other handler's hands, also when mix handlers of
\* different rounds run concurrently.
C19_FIFO ==
    [][/\ \A t \in Tasks :
            /\ (last'.op = "mix" /\ Moved(t))
                  => /\ task'[t].pc = "mixSend"
                     /\ IF outgoingFriendRequests # <<>>
                        THEN /\ task'[t].out = Head(outgoingFriendRequests)
                             /\ outgoingFriendRequests' = Tail(outgoingFriendRequests)
                        ELSE /\ task'[t].out.Username = ""
                             /\ outgoingFriendRequests' = <<>>
                     /\ task'[t].sent.Username = task'[t].out.Username
            /\ (last'.op = "mix.send" /\ Moved(t) /\ task[t].out.Username # "")
                  => emitted' = <<Event("SentFriendRequest", task[t].out.Username)>>
            /\ task'[t].out.Username # ""
                  => /\ task'[t].out \notin Range(outgoingFriendRequests')
                     /\ \A u \in Tasks \ {t} : task'[u].out # task'[t].out
       /\ outgoingFriendRequests' # outgoingFriendRequests
            => last'.op = "mix" /\ \E t \in Tasks : Moved(t)
      ]_vars

\* The mix handlers of two rounds run at once, each with one of the two
\* queued requests.
C19_Witness ==
    \E t1 \in Tasks, t2 \in Tasks :
        /\ task[t1].pc = "mixSend" /\ task[t2].pc = "mixSend"
        /\ task[t1].round # task[t2].round
        /\ task[t1].out.Username # "" /\ task[t2].out.Username # ""
        /\ outgoingFriendRequests = <<>>


\* The goroutines in a mailbox scan that is fetching the mailbox or
\* decrypting its spans.
Scanning == {t \in Tasks : task[t].pc \in {"fetch", "scanSpans"}}

\* readLoop can hand the next envelope to its handler.
CanRead == ~crashed /\ wsOpen /\ envelopes < MaxEnvelopes

C23_NoFalseNegatives ==
    /\ \A x \in wasSet : Filter_Test(x)
    /\ wasSet = {} => \A x \in Elems : ~Filter_Test(x)

\* Two elements have been Set and both test true, while an element that was
\* never Set tests true as well (a false positive).
C23_Witness ==
    /\ Cardinality(wasSet) = 2
    /\ \A x \in wasSet : Filter_Test(x)
    /\ \E x \in Elems \ wasSet : Filter_Test(x)


\* C24: Connect and Close form a two-state session.  Connect on a connected
\* client returns "already connected" and changes nothing; Close on a
\* client that is not connected returns "not connected" and changes
\* nothing; the client becomes connected only with both connections
\* established; and a client that is not connected when Connect or Close
\* returns has neither connection open: where Connect fails on the dialing
\* side after it has dialed the add-friend coordinator, it closes the
\* add-friend connection.
C24_TwoStateSession ==
    [][last'.op \in {"Connect", "Close"} =>
          /\ (last'.op = "Connect" /\ connected)
                => ret' = "already connected" /\ UNCHANGED <<clientVars, connVars, connected, dialingOpen>>
          /\ (last'.op = "Close" /\ ~connected)
                => ret' = "not connected" /\ UNCHANGED <<clientVars, connVars, connected, dialingOpen>>
          /\ (connected' /\ ~connected) => wsOpen' /\ dialingOpen' /\ ret' = "nil"
          /\ ~connected' => ~wsOpen' /\ ~dialingOpen'
      ]_vars

\* C24 without its last part: what holds of Connect and Close.
C24_ConnectedMeansBoth ==
    [][last'.op \in {"Connect", "Close"} =>
          /\ (last'.op = "Connect" /\ connected)
                => ret' = "already connected" /\ UNCHANGED <<clientVars, connVars, connected, dialingOpen>>
          /\ (last'.op = "Close" /\ ~connected)
                => ret' = "not connected" /\ UNCHANGED <<clientVars, connVars, connected, dialingOpen>>
          /\ (connected' /\ ~connected) => wsOpen' /\ dialingOpen' /\ ret' = "nil"
          /\ (ret' = "dialingDial") => ~wsOpen' /\ ~connected'
      ]_vars


\* What c.mu guards: the three request queues, the friends map and the
\* round map.
MuGuarded == <<outgoingFriendRequests, sentFriendRequests, incomingFriendRequests,
               friends, DOMAIN addFriendRounds>>

\* The key fields of the state of round r.
KeyFields(r) ==
    LET st == addFriendRounds[r]
    IN  <<st.ServerMasterKeys, st.PrivateKeys, st.ServerBLSKeys, st.IdentitySigs>>

\* C25: the request queues, the friends map and the round map are mutated
\* only with c.mu held, so that no step mutates any of them while another
\* thread holds c.mu; and the key fields of a round state are mutated only
\* by a goroutine that holds that round state's st.mu.
C25_MutationsUnderLocks ==
    [][/\ (mu # 0 /\ mu' = mu) => MuGuarded' = MuGuarded
       /\ \A r \in Rounds :
            (/\ r \in DOMAIN addFriendRounds
             /\ r \in DOMAIN addFriendRounds'
             /\ KeyFields(r)' # KeyFields(r))
               => \E t \in Tasks : Moved(t) /\ (stMu[r] = t \/ stMu'[r] = t)
      ]_vars

\* The application holds c.mu while a mix handler, its onion sent, is about
\* to append to the sent queue, in a round whose keys were extracted.
C25_Witness ==
    /\ mu = App
    /\ \E t \in Tasks :
          /\ task[t].pc = "mixAppend"
          /\ AllSet(addFriendRounds[task[t].round].PrivateKeys)


\* C26: once the onion of a real request is sent, the mix handler calls
\* SentFriendRequest and matches the sent request against the pending
\* incoming requests.  On a hit it goes on to newFriend, which creates the
\* Friend, and the sent request does not enter the sent queue; on a miss it
\* appends the sent request to the end of the sent queue and creates no
\* Friend.  Nothing but the miss branch adds to the sent queue.
C26_SentThenMatched ==
    [][/\ \A t \in Tasks :
            /\ (last'.op = "mix.send" /\ Moved(t) /\ IsReal(task[t].sent))
                  => /\ emitted' = <<Event("SentFriendRequest", task[t].sent.Username)>>
                     /\ task'[t].pc = IF \E i \in DOMAIN incomingFriendRequests :
                                             SameUserAndRound(incomingFriendRequests[i], task[t].sent)
                                      THEN "mixFriend" ELSE "mixAppend"
                     /\ UNCHANGED <<friends, sentFriendRequests, incomingFriendRequests>>
            /\ (last'.op = "mix.newFriend" /\ Moved(t))
                  => /\ task[t].pc = "mixFriend"
                     /\ task[t].inReq.Username \in DOMAIN friends'
                     /\ friends'[task[t].inReq.Username] = FriendOf(task[t].inReq)
                     /\ task[t].sent.id \notin SeqIds(sentFriendRequests)
                     /\ task[t].sent.id \notin SeqIds(sentFriendRequests')
            /\ (last'.op = "mix.append" /\ Moved(t))
                  => /\ task[t].pc = "mixAppend"
                     /\ sentFriendRequests' = sentFriendRequests \o <<task[t].sent>>
                     /\ friends' = friends
       /\ Len(sentFriendRequests') > Len(sentFriendRequests) => last'.op = "mix.append"
      ]_vars

\* A hit after a miss: the mix handler has just made a Friend of a request
\* it had sent, while a request sent earlier waits in the sent queue.
C26_Witness ==
    /\ last.op = "mix.newFriend"
    /\ friends # <<>>
    /\ sentFriendRequests # <<>>


\* C27: for a verified incoming introduction the mailbox handler appends
\* the request to the incoming queue and calls ReceivedFriendRequest if and
\* only if no sent request matches it; when a sent request matches it makes
\* a Friend and calls ConfirmedFriend, and the incoming request is neither
\* queued nor reported by ReceivedFriendRequest.  No other step queues an
\* incoming request or calls ReceivedFriendRequest.
C27_ReceivedIffUnmatched ==
    [][/\ \A t \in Tasks :
            /\ (last'.op = "mailbox.decode" /\ Moved(t))
                  => /\ \A i \in DOMAIN task[t].spans :
                           task'[t].spans[i] # task[t].spans[i]
                              => task'[t].spans[i].pc =
                                    IF MatchingSent(task[t].spans[i].intro) = {}
                                    THEN "append" ELSE "friend"
                     /\ emitted' = <<>>
                     /\ UNCHANGED <<friends, incomingFriendRequests, sentFriendRequests>>
            /\ (last'.op = "mailbox.append" /\ Moved(t))
                  => \E i \in DOMAIN task[t].spans :
                        /\ task[t].spans[i].pc = "append"
                        /\ emitted' = <<Event("ReceivedFriendRequest", task[t].spans[i].intro.Username)>>
                        /\ incomingFriendRequests' = incomingFriendRequests \o <<task[t].spans[i].intro>>
                        /\ friends' = friends
            /\ (last'.op = "mailbox.newFriend" /\ Moved(t))
                  => \E i \in DOMAIN task[t].spans :
                        /\ task[t].spans[i].pc = "friend"
                        /\ friends' = MapPut(friends, task[t].spans[i].intro.Username,
                                             FriendOf(task[t].spans[i].intro))
                        /\ Event("ConfirmedFriend", task[t].spans[i].intro.Username) \in Range(emitted')
                        /\ \A j \in DOMAIN emitted' : emitted'[j].kind # "ReceivedFriendRequest"
                        /\ task[t].spans[i].intro.id \notin SeqIds(incomingFriendRequests)
                        /\ task[t].spans[i].intro.id \notin SeqIds(incomingFriendRequests')
       /\ (\E j \in DOMAIN emitted' : emitted'[j].kind = "ReceivedFriendRequest")
            => last'.op = "mailbox.append"
       /\ Len(incomingFriendRequests') > Len(incomingFriendRequests)
            => last'.op = "mailbox.append"
      ]_vars

\* The mailbox handler has just queued and reported an incoming request
\* that none of the sent requests in the sent queue matches.
C27_Witness ==
    /\ last.op = "mailbox.append"
    /\ emitted # <<>> /\ emitted[1].kind = "ReceivedFriendRequest"
    /\ sentFriendRequests # <<>>
    /\ incomingFriendRequests # <<>>
    /\ MatchingSent(incomingFriendRequests[Len(incomingFriendRequests)]) = {}


\* C28: the dial round recorded in a sent request and written into its
\* introduction is the request's own DialRound when the request is a
\* confirmation, and otherwise the value of lastDialingRound at the moment
\* genIntro runs; the sent request and the introduction carry the same dial
\* round, and the sent request keeps it when lastDialingRound moves on.
C28_DialRoundOfIntro ==
    [][\A t \in Tasks :
         /\ (last'.op = "mix" /\ Moved(t))
               => /\ task'[t].sent.DialRound =
                        IF task'[t].out.Confirmation THEN task'[t].out.DialRound
                        ELSE lastDialingRound
                  /\ IntroOf(task'[t].sent).DialingRound = task'[t].sent.DialRound
         /\ (task[t].pc = "mixSend" /\ task'[t].pc # "idle")
               => task'[t].sent.DialRound = task[t].sent.DialRound
         /\ (last'.op = "mix.append" /\ Moved(t))
               => sentFriendRequests'[Len(sentFriendRequests')].DialRound = task[t].sent.DialRound
      ]_vars

\* A new request was given the last dialing round of the moment of its mix
\* step, which has moved on since; a confirmation sent before it carries
\* its own dial round.
C28_Witness ==
    /\ \E t \in Tasks :
          /\ task[t].pc = "mixSend" /\ IsReal(task[t].sent)
          /\ ~task[t].out.Confirmation
          /\ task[t].sent.DialRound # lastDialingRound
    /\ \E i \in DOMAIN sentFriendRequests :
          sentFriendRequests[i].Username = "eve"


\* C29: SentFriendRequest(req) is called only when the onion that carries
\* req was written to the entry server: a mix handler whose conn.Send fails
\* calls no SentFriendRequest.
C29_SentOnlyIfWritten ==
    [][\A t \in Tasks :
         (last'.op = "mix.send" /\ Moved(t)
            /\ Event("SentFriendRequest", task[t].out.Username) \in Range(emitted'))
         => onions'[task[t].round] = onions[task[t].round] + 1
      ]_vars


\* The four conditions of a status request, on the database as it was when
\* the request was served.
StatusValid(a) == a.Username \in ValidUsernames
StatusExists(a) == StatusValid(a) /\ users[a.Username].Status # "none"
StatusVerified(a) == StatusExists(a) /\ users[a.Username].Status = "verified"
StatusSigned(a) == StatusExists(a) /\ VerifyStatus(users[a.Username].Key, a)

\* C30 as stated: checkStatus returns success only when the username is
\* valid, the user exists, its status is verified and the signature
\* verifies under its key; otherwise it returns the first that applies of
\* ErrInvalidUsername, ErrNotRegistered, ErrNotVerified and
\* ErrInvalidSignature, in this order; and it changes no server state.
C30_CheckStatus ==
    [][last'.op = "checkStatus" =>
          LET a == statusArgs'.args
          IN  /\ users' = users
              /\ ret' = "nil" <=> (StatusValid(a) /\ StatusExists(a) /\ StatusVerified(a)
                                     /\ StatusSigned(a))
              /\ ret' = "ErrInvalidUsername" <=> ~StatusValid(a)
              /\ ret' = "ErrNotRegistered" <=> (StatusValid(a) /\ ~StatusExists(a))
              /\ ret' = "ErrNotVerified" <=> (StatusExists(a) /\ ~StatusVerified(a))
              /\ ret' = "ErrInvalidSignature" <=> (StatusVerified(a) /\ ~StatusSigned(a))
      ]_vars

\* C30, amended: the same with the error of the database lookup, which
\* checkStatus returns as it is after the username check and before the
\* other three.
C30_CheckStatusWithLookupError ==
    [][last'.op = "checkStatus" =>
          LET a == statusArgs'.args
              failed == statusArgs'.getUserErr
          IN  /\ users' = users
              /\ ret' = "nil" <=> (~failed /\ StatusValid(a) /\ StatusExists(a)
                                     /\ StatusVerified(a) /\ StatusSigned(a))
              /\ ret' = "ErrInvalidUsername" <=> ~StatusValid(a)
              /\ ret' = "getUser" <=> (StatusValid(a) /\ failed)
              /\ ret' = "ErrNotRegistered" <=> (StatusValid(a) /\ ~failed /\ ~StatusExists(a))
              /\ ret' = "ErrNotVerified" <=> (~failed /\ StatusExists(a) /\ ~StatusVerified(a))
              /\ ret' = "ErrInvalidSignature" <=> (~failed /\ StatusVerified(a) /\ ~StatusSigned(a))
      ]_vars

\* A request for a user that is not verified, with a signature that does
\* not verify either: the first of the two errors is returned.
C30_Witness ==
    /\ last.op = "checkStatus"
    /\ ret = "ErrNotVerified"
    /\ ~statusArgs.getUserErr
    /\ ~StatusSigned(statusArgs.args)

\* ---------------------------------------------------------------------
\* C31: clientConn.Send releases the connection's write mutex on every
\* return path, the failed websocket write included: whenever a Send
\* returns, c.mu is free, so a later Send on the connection can take it.
C31_SendReleasesMutex ==
    [][\A t \in Tasks :
          (task[t].pc = "mixSend" /\ task'[t].pc # "mixSend") => connMu' = "free"
      ]_vars

\* ---------------------------------------------------------------------
\* The goroutine t waits for the lock its next operation takes.
WaitsFor(t, lock) == Running(t) /\ NextOp(t).op = "Lock" /\ NextOp(t).lock = lock

\* The next operation of t can be done now.
CanStep(t) ==
    /\ Running(t)
    /\ NextOp(t).op = "Lock" =>
          IF NextOp(t).lock = "c.mu" THEN mu = 0 ELSE stMu[lockOps[t].round] = 0

\* C32: the handlers never deadlock on c.mu and the rounds' st.mu: a
\* goroutine that holds c.mu never waits for an st.mu (the nesting is
\* always st.mu outside, c.mu inside), and while any handler is running
\* some running handler can take its next step.
C32_LockOrder ==
    /\ \A t \in Tasks : mu = t => ~WaitsFor(t, "st.mu")
    /\ (\E t \in Tasks : Running(t)) => \E t \in Tasks : CanStep(t)

\* One goroutine holds a round's st.mu and, inside it, c.mu, while
\* another waits for the st.mu of the same round.
C32_Witness ==
    \E t \in Tasks, u \in Tasks :
        /\ u # t
        /\ mu = t /\ stMu[lockOps[t].round] = t
        /\ WaitsFor(u, "st.mu") /\ lockOps[u].round = lockOps[t].round

\* ---------------------------------------------------------------------
\* C33: a mix message for a configured round in which some mixer's
\* signature over the settings does not verify calls Error once and does
\* nothing else: no onion, the outgoing queue keeps its requests, the sent
\* queue, the incoming queue and the friends stay as they are, and no
\* goroutine goes on to send.
C33_BadMixSignature ==
    [][\A t \in Tasks, r \in MixRounds, keysPanic \in BOOLEAN :
          HasRound(r) =>
             \A sigs \in MixSignatures(r) :
                 ((\E i \in DOMAIN sigs : ~sigs[i])
                    /\ sendAddFriendOnion(t, r, VerifyMixSignatures(sigs), keysPanic))
                   => /\ emitted' = <<ErrorEvent>>
                      /\ UNCHANGED <<onions, outgoingFriendRequests, sentFriendRequests,
                                     incomingFriendRequests, friends, task, stMu>>
      ]_vars

\* The mix message of a configured round was refused while requests were
\* waiting in the outgoing queue: they are still there, and the round has
\* no onion.
C33_Witness ==
    /\ last.op = "mix" /\ HasRound(last.round)
    /\ emitted = <<ErrorEvent>>
    /\ Len(outgoingFriendRequests) = 2
    /\ onions[last.round] = 0

\* ---------------------------------------------------------------------
\* C34: a pkg, mix or mailbox message for a round that has no state entry
\* creates no entry, sends no onion, changes no queue and starts no work
\* (no goroutine is left running, no lock is taken): pkg and mix call
\* Error once, mailbox calls nothing, whatever the fetch would return.
C34_UnknownRound ==
    [][(last'.op \in {"pkg", "mix", "mailbox"} /\ ~HasRound(last'.round))
          => /\ UNCHANGED <<addFriendRounds, onions, outgoingFriendRequests,
                            sentFriendRequests, incomingFriendRequests, friends,
                            task, stMu, crashed>>
             /\ emitted' = IF last'.op = "mailbox" THEN <<>> ELSE <<ErrorEvent>>
      ]_vars

\* A mailbox message came for a round without state, after other
\* envelopes, while a request was waiting to be sent.
C34_Witness ==
    /\ last.op = "mailbox" /\ ~HasRound(last.round)
    /\ emitted = <<>>
    /\ outgoingFriendRequests # <<>>
    /\ envelopes > 1


====
